---- MODULE Spec2Model ----
(***************************************************************************)
(* Gmail -> Discord forwarder (arxsheikh/gmail-discord-integration).       *)
(*                                                                         *)
(* The repository holds several near-duplicate programs.  The model keeps  *)
(* them apart with the variable `variant`, fixed at start-up:              *)
(*   "file"      src/src/index.ts 1-240     token in token.json            *)
(*   "retry"     src/src/index.ts 242-612   Firebase, refresh-and-retry    *)
(*   "basic"     src/src/index.ts 613-855   Firebase, no retry             *)
(*   "ensure"    src/src/index.ts 857-1205  Firebase, ensureValidAccessToken*)
(*   "processed" src/unnamed/part_002       Firebase, processed-id set     *)
(*   "socket"    src/unnamed/part_000       Firebase, log stream on socket.io*)
(*   "silo"      src/src/frontend.html 242-474  JSON silo, no Subject test *)
(*   "app"       src/src/app.ts             token utility, no mail polling *)
(*                                                                         *)
(* One action is one resumption of an async function: the code between two *)
(* awaits runs atomically on the event loop, and every await of a provider,*)
(* webhook or credential-store call is a point where other callbacks run.  *)
(* A write to the credential store takes effect when its call is answered. *)
(* The answers of the libraries (googleapis, google-auth-library, firebase, *)
(* axios) are inputs: each action chooses among the answers they can give. *)
(***************************************************************************)
EXTENDS Integers, Sequences, FiniteSets, TLC

\* ------------------------------------------------------------------ bounds
\* Messages in the mailbox (ids 1..MaxMsgs).
MaxMsgs == 2
\* Events the environment starts in one behaviour: timer firings, HTTP
\* requests, failures of a provider, webhook, store or refresh call, and
\* expiries of an access token.
MaxEvents == 3
\* Executions of a tick that may be in flight at the same time.
MaxRuns == 2
\* Attempts of one invocation that are followed while every request is
\* answered unauthorized.
MaxDepth == 3

\* ------------------------------------------------------- program constants
\* MAX_EMAILS_TO_FETCH = "10"
MAX_EMAILS_TO_FETCH == 10

Variants ==
  {"file", "retry", "basic", "ensure", "processed", "socket", "silo", "app"}

MsgIds == 1..MaxMsgs
RunIds == 1..MaxRuns

\* -------------------------------------------------------------- the filter
\* Strings are sequences of characters, so that includes() is computed.
ALERT == <<"A", "L", "E", "R", "T">>
Alert == <<"A", "l", "e", "r", "t">>
NoSubject == <<"N", "o", " ", "S", "u", "b", "j", "e", "c", "t">>

\* subject.includes(m)
Includes(s, m) ==
  \E k \in 0..(Len(s) - Len(m)) : SubSeq(s, k + 1, k + Len(m)) = m

\* The for loop tests the Subject; the JSON-silo program forwards every
\* unread message.
HasSubjectTest(v) == v # "silo"

\* The keyword each variant filters on (none where there is no test).
Marker(v) ==
  CASE v \in {"file", "basic", "socket"}      -> ALERT
    [] v \in {"retry", "ensure", "processed"} -> Alert
    [] OTHER                                  -> <<>>

\* headers.find(h => h.name === "Subject")?.value || "No Subject"
\* (<<>> stands for a missing header or an empty value: both are falsy)
SubjectOrDefault(h) == IF h = <<>> THEN NoSubject ELSE h

\* The mailbox the provider holds: the Subject header of each message.
\*   1: "Server ALERT: disk full"   2: "Alert: FWOG"
\*   3: "Weekly news"               4: no Subject header
HeaderOf(id) ==
  CASE id % 4 = 1 -> <<"S","e","r","v","e","r"," ","A","L","E","R","T",":"," ",
                       "d","i","s","k"," ","f","u","l","l">>
    [] id % 4 = 2 -> <<"A","l","e","r","t",":"," ","F","W","O","G">>
    [] id % 4 = 3 -> <<"W","e","e","k","l","y"," ","n","e","w","s">>
    [] OTHER      -> <<>>

SubjectOf(id) == SubjectOrDefault(HeaderOf(id))

AcceptedNever(v, id) == FALSE

\* if (!subject.includes(MARKER)) { ...skip... }
Accepted(v, id) == ~HasSubjectTest(v) \/ Includes(SubjectOf(id), Marker(v))

\* ------------------------------------------------------------ the payload
NoBodyContent == <<"N","o"," ","B","o","d","y"," ","C","o","n","t","e","n","t">>
Everyone == <<"@","e","v","e","r","y","o","n","e"," ">>
ChartUrl ==
  <<"h","t","t","p","s",":","/","/","w","w","w",".","t","r","a","d","i","n",
    "g","v","i","e","w",".","c","o","m","/","c","h","a","r","t","/","F","W",
    "O","G","U","S","D","T","/","R","i","f","z","E","k","x","n","-","F","W",
    "O","G","/">>
ChartLink ==
  <<"\n","\n","[","C","l","i","c","k"," ","h","e","r","e"," ","t","o"," ",
    "v","i","e","w"," ","c","h","a","r","t","]","(">> \o ChartUrl \o <<")">>

\* The decoded data of the message's text part (message 1: "92% used"), or
\* <<>> when the payload has no such part.
BodyDataOf(id) ==
  IF id % 4 = 1 THEN <<"9","2","%"," ","u","s","e","d">> ELSE <<>>

\* bodyPart?.body?.data ? Buffer.from(...).toString("utf-8") : "No Body Content"
BodyOf(id) == IF BodyDataOf(id) = <<>> THEN NoBodyContent ELSE BodyDataOf(id)

\* s.slice(0, n)
Slice(s, n) == SubSeq(s, 1, IF Len(s) < n THEN Len(s) ELSE n)

\* messagePayload of sendToDiscord: the texts it carries, by field.
Payload(v, id) ==
  CASE v = "file" ->
         [content |-> <<>>, title |-> Slice(SubjectOf(id), 256),
          description |-> Slice(BodyOf(id), 4096)]
    [] v \in {"basic", "socket", "silo"} ->
         [content |-> <<>>, title |-> SubjectOf(id), description |-> BodyOf(id)]
    [] v = "ensure" ->
         [content |-> ChartUrl, title |-> SubjectOf(id),
          description |-> BodyOf(id) \o ChartLink]
    [] OTHER ->
         [content |-> Everyone \o SubjectOf(id), title |-> <<>>,
          description |-> <<>>]

\* -------------------------------------------------------- the token store
\* A credential is a record of the fields the provider's Credentials carry,
\* 0 standing for a field that is undefined: at (access_token), rt
\* (refresh_token), scope, token_type, expiry_date and id_token.  The
\* specifications of the servers carry the two fields their handlers read, at
\* and rt; the specification of the token store carries all six.
\*
\* The fields part_002's saveTokenToFirebase copies into tokenData.
StoredFields == {"at", "rt", "scope", "token_type", "expiry_date"}

\* The value of field f of a record (0 where the record has no such field).
Field(rec, f) == IF f \in DOMAIN rec THEN rec[f] ELSE 0

\* const tokenData = { access_token: tokens.access_token, ... }
TokenData(tokens) == [f \in StoredFields \cap DOMAIN tokens |-> tokens[f]]

\* part_002 writes tokenData; the other servers write tokens as it is.
PicksFields(v) == v = "processed"

\* snapshot.exists(): the document has a value (a document none of whose
\* fields is defined is no document).
Exists(db) == \E f \in DOMAIN db : db[f] # 0

\* snapshot.exists() ? snapshot.val() : null   (null is NoToken below)
loadTokenFromFirebase(db) == IF Exists(db) THEN db ELSE [at |-> 0, rt |-> 0]

\* ---------------------------------------------------- variant differences
\* A skipped (filtered-out) item is marked read before `continue`.
MarksSkipped(v) == v \in {"retry", "processed"}
\* fetchAndProcessEmails wraps its body in try/catch.
CatchesErrors(v) == v # "file"
\* The catch block refreshes and calls fetchAndProcessEmails again on a 401.
RetriesOn401(v) == v \in {"retry", "processed"}
\* The catch block refreshes through a blank OAuth2 client and returns.
RefreshesBlankOn401(v) == v = "ensure"
\* processedEmails is consulted and filled.
UsesProcessedSet(v) == v = "processed"
\* GET / calls setInterval after a successful authorize().
RootStartsTimer(v) == v \in {"retry", "ensure", "processed"}
\* handleOAuthCallback fetches at once and calls setInterval.
CallbackStartsPolling(v) == v \in {"retry", "basic", "ensure"}
\* The start-up timer's callback has its own try/catch.
MainTimerCatches(v) == v \in {"retry", "processed"}

\* ------------------------------------------------------------- data shapes
\* A persisted credential: access token id and refresh token id (0: absent).
NoToken == [at |-> 0, rt |-> 0]
\* The calls of saveTokenToFirebase and loadTokenFromFirebase:
\*   saves   the tokens of the calls of saveTokenToFirebase awaiting set(...)
\*   fresh   the calls of loadTokenFromFirebase awaiting get(...) that were
\*           made after the latest answered save had been answered
\*   stale   the other calls of loadTokenFromFirebase awaiting get(...)
\*   done    some save has been answered
\*   saved   the tokens of the latest answered save
\*   over    that save replaced a different document
\*   ok      the latest answered load was one of the fresh ones
\*   loaded  what the latest answered load returned
NoStoreCall ==
  [saves |-> <<>>, fresh |-> 0, stale |-> 0, done |-> FALSE, saved |-> NoToken,
   over |-> FALSE, ok |-> FALSE, loaded |-> NoToken]

\* A Gmail client: the credentials set on its OAuth2 client, whether a
\* "tokens" listener is registered on it, and the record that listener
\* closes over (NoToken: it closes over none).
NoClient == [at |-> 0, rt |-> 0, lis |-> NoToken, on |-> FALSE]

\* google.gmail({ version: "v1", auth: oAuth2Client }) after
\* oAuth2Client.setCredentials(tok), with no listener.
ClientOf(tok) == [at |-> tok.at, rt |-> tok.rt, lis |-> NoToken, on |-> FALSE]

\* authorize() registers oAuth2Client.on("tokens", ...).
RegistersListener(v) == v \in {"file", "retry", "ensure", "processed"}

\* The client authorize() returns: built from the loaded record token, with
\* the credentials cred set on it.
AuthorizedClient(v, token, cred) ==
  [at |-> cred.at, rt |-> cred.rt,
   lis |-> IF RegistersListener(v) THEN token ELSE NoToken,
   on |-> RegistersListener(v)]

\* { ...token, ...credentials }: fields of the second win where present.
Merge(token, credentials) ==
  [at |-> IF credentials.at # 0 THEN credentials.at ELSE token.at,
   rt |-> IF credentials.rt # 0 THEN credentials.rt ELSE token.rt]

\* The ascending sequence of the elements of a finite set of numbers.
RECURSIVE SortedSeq(_)
SortedSeq(S) ==
  IF S = {} THEN <<>>
  ELSE LET m == CHOOSE x \in S : \A y \in S : x <= y
       IN <<m>> \o SortedSeq(S \ {m})

Take(s, n) == SubSeq(s, 1, IF Len(s) < n THEN Len(s) ELSE n)

\* messages.list({ q: "is:unread", maxResults: MAX_EMAILS_TO_FETCH })
ListUnread(u) == Take(SortedSeq(u), MAX_EMAILS_TO_FETCH)

Range(s) == {s[k] : k \in 1..Len(s)}
Count(s, x) == Cardinality({k \in 1..Len(s) : s[k] = x})

\* ------------------------------------------------------------------- state
\* ------------------------------------------------------------ configuration
\* const { CLIENT_ID, ..., PORT = 3000, REFRESH_MAILS_TIME_MS = "60000",
\*         MAX_EMAILS_TO_FETCH = "10" } = process.env
\* (the JSON-silo program reads JSON_SILO_URL and no MAX_EMAILS_TO_FETCH)
RequiredNames(v) ==
  {"CLIENT_ID", "CLIENT_SECRET", "REDIRECT_URI", "WEBHOOK_URL"}
    \cup (IF v = "silo" THEN {"JSON_SILO_URL"} ELSE {})
DefaultedNames == {"REFRESH_MAILS_TIME_MS", "MAX_EMAILS_TO_FETCH"}
ConfigNames == RequiredNames("silo") \cup DefaultedNames

\* if (!CLIENT_ID || !CLIENT_SECRET || !REDIRECT_URI || !WEBHOOK_URL)
\* (and || !JSON_SILO_URL in the JSON-silo program)
MissingConfig(v, e) == \E n \in RequiredNames(v) : n \notin e

VARIABLES
  variant,         \* which of the repository's programs runs
  store,           \* the persisted credential (token.json / Firebase "gmail-token")
  issued,          \* the last token id the identity provider has issued
  gmailClient,     \* let gmailClient: gmail_v1.Gmail | null
  unread,          \* ids of the messages that carry the UNREAD label
  processedEmails, \* const processedEmails = new Set<string>()
  timers,          \* the intervals setInterval has created, in creation order
  runs,            \* the executions of a tick in flight, by slot
  booted,          \* "no", then "up" (HTTP server listening) or "noserver"
  events,          \* environment events so far
  resp,            \* the last HTTP response: route, status, body
  unhandled,       \* a rejection escaped a callback with nothing to catch it
  lastRefreshed,   \* the credentials the program's latest successful refreshAccessToken() returned
  staleCall,       \* a provider call went through a client older than that
  forwards,        \* how many times each message id was POSTed to the webhook
  logs,            \* const logs: string[] = []
  logged,          \* the number of the latest call of addLog (0: none yet)
  env,             \* the names process.env defines
  storeCall        \* the token store's calls in flight and their last answers

vars == <<variant, store, issued, gmailClient, unread, processedEmails, timers,
          runs, booted, events, resp, unhandled,
          lastRefreshed, staleCall, forwards, logs, logged, env, storeCall>>

\* The value saveTokenToFirebase hands to set(dbRef, ...).
Written(tokens) == IF PicksFields(variant) THEN TokenData(tokens) ELSE tokens

SaveKeepingFirst(db, tokens) == IF db.at = 0 THEN Written(tokens) ELSE db

\* set(ref(database, "gmail-token"), ...): the document is replaced.
saveTokenToFirebase(db, tokens) == Written(tokens)

\* One execution of a tick: a top-level call of the timer callback, of the
\* start-up fetch or of the fetch after the OAuth callback, with the retries
\* fetchAndProcessEmails makes by calling itself.
IdleRun ==
  [pc |-> "idle", origin |-> "none", gmail |-> NoClient, client |-> NoClient,
   msgs |-> <<>>, i |-> 0, attempts |-> 0, rctx |-> "none",
   tok |-> NoToken, cred |-> NoToken,
   listed |-> {}, sent |-> <<>>, marked |-> {}, postFailed |-> {},
   failed |-> FALSE, outcome |-> "none", alone |-> TRUE]

\* An HTTP response: the page or message sent, or the value of res.json.
NoResp == [route |-> "none", status |-> 0, body |-> "none", json |-> <<>>]

Resp(route, status, body) ==
  [route |-> route, status |-> status, body |-> body, json |-> <<>>]

CallbackResp(status, body) == Resp("/oauth2callback", status, body)

Init ==
  /\ variant \in Variants
  /\ store \in {NoToken, [at |-> 1, rt |-> 1]}
  /\ issued = 1
  /\ gmailClient = NoClient
  /\ unread \in {{}, MsgIds}
  /\ processedEmails = {}
  /\ timers = <<>>
  /\ runs = [r \in RunIds |-> IdleRun]
  /\ booted = "no"
  /\ events = 0
  /\ resp = NoResp
  /\ unhandled = FALSE
  /\ lastRefreshed = NoToken
  /\ staleCall = FALSE
  /\ forwards = [id \in MsgIds |-> 0]
  /\ logs = <<>>
  /\ logged = 0
  /\ storeCall = NoStoreCall
  /\ env = ConfigNames

Active == {r \in RunIds : runs[r].pc # "idle"}
FreeSlot == CHOOSE r \in RunIds : runs[r].pc = "idle" /\ \A q \in RunIds : runs[q].pc = "idle" => r <= q
HasFreeSlot == \E r \in RunIds : runs[r].pc = "idle"
CanEvent == events < MaxEvents
\* A run that has ended is observed and cleared before anything else runs.
NoneEnded == \A r \in RunIds : runs[r].pc # "ended"

\* ------------------------------------------------------------ the log buffer
\* The servers that keep const logs: string[].
LogVariants == {"retry", "basic", "ensure", "processed"}

\* if (logs.length > 20) logs.shift()   (100 in the second server of index.ts)
LogCapacity(v) == IF v = "basic" THEN 100 ELSE 20

addLogDropNewest(buf, entry, cap) ==
  IF Len(buf) + 1 > cap THEN buf ELSE Append(buf, entry)

\* logs.push(logEntry); if (logs.length > cap) logs.shift()
addLog(buf, entry, cap) ==
  LET pushed == Append(buf, entry) IN
  IF Len(pushed) > cap THEN Tail(pushed) ELSE pushed

\* An entry is identified by the number of the call that pushed it.  The
\* calls are numbered round a cycle longer than the buffer, so that the
\* entries in the buffer are always distinct and the numbers stay bounded
\* however long the program runs.
LogNumbers(v) == LogCapacity(v) + 2

NextNumber(v, k) == (k % LogNumbers(v)) + 1

\* n calls of addLog, one after the other, the last call so far being `last`.
RECURSIVE AddLogs(_, _, _, _)
AddLogs(buf, last, n, v) ==
  IF n = 0 THEN buf
  ELSE AddLogs(addLog(buf, NextNumber(v, last), LogCapacity(v)),
               NextNumber(v, last), n - 1, v)

\* The number of the last of n further calls.
RECURSIVE NumberAfter(_, _, _)
NumberAfter(last, n, v) ==
  IF n = 0 THEN last ELSE NumberAfter(NextNumber(v, last), n - 1, v)

\* The handler step makes n calls of addLog.
Logs(n) ==
  IF variant \in LogVariants
  THEN /\ logs' = AddLogs(logs, logged, n, variant)
       /\ logged' = NumberAfter(logged, n, variant)
  ELSE UNCHANGED <<logs, logged>>

\* ------------------------------------------------- calls of addLog, by step
\* for-loop body before messages.get: "Processing email i of n..."
IterLogs(v) == IF v \in {"basic", "ensure"} THEN 1 ELSE 0
\* if (processedEmails.has(message.id)) { addLog("Skipped ..."); continue; }
SkipLogs(v) == IF UsesProcessedSet(v) THEN 1 ELSE 0
\* After sendToDiscord has returned: "Sent!", "Marked email as processed".
PostOkLogs(v) == CASE v = "retry" -> 1 [] v = "processed" -> 2 [] OTHER -> 0
\* After the for loop: "Done: ...", "Email processing completed ..." and its
\* summary.
DoneLogs(v) ==
  CASE v \in {"retry", "processed"} -> 1 [] v = "ensure" -> 2 [] OTHER -> 0
\* GET / after authorize(): "Authorization successful. Initializing ..."
WelcomeLogs(v) == IF v = "basic" THEN 0 ELSE 1

\* The caller of fetchAndProcessEmails resumes: handleOAuthCallback logs
\* either way, the start-up and the guarded timer callbacks log in their
\* catch block.
CallerLogs(v, origin, threw) ==
  CASE origin = "callback" -> 1
    [] origin = "startup"  -> IF threw THEN 1 ELSE 0
    [] origin = "main"     -> IF threw /\ MainTimerCatches(v) THEN 1 ELSE 0
    [] OTHER               -> 0

\* The for loop moves on from index j0 and the step ends in `after`: one
\* entry for each processed id stepped over, then the top of the next
\* iteration, or the end of the loop and the caller's resumption.
LoopLogs(v, after, j0) ==
  LET j == IF after.pc = "get" THEN after.i ELSE Len(after.msgs) + 1
  IN SkipLogs(v) * (j - j0)
     + (IF after.pc = "get" THEN IterLogs(v)
        ELSE DoneLogs(v) + CallerLogs(v, after.origin, FALSE))

\* The catch block of fetchAndProcessEmails logs once; when the call is over
\* its caller resumes.
FailLogs(v, after) ==
  1 + (IF after.pc = "ended"
       THEN CallerLogs(v, after.origin, after.outcome = "threw") ELSE 0)

\* The refresh rejects: refreshAccessTokenIfNeeded logs in its catch block
\* (the blank-client refresh has none), after saveTokenToFirebase's own catch
\* where it has one; then the caller's catch.
RefreshFailLogs(v, run, saving) ==
  (IF run.rctx = "blank" THEN 0
   ELSE 1 + (IF saving /\ v = "processed" THEN 1 ELSE 0))
  + CallerLogs(v, run.origin, TRUE)

\* authorize() has returned: the listen callback enters
\* fetchAndProcessEmails, GET / logs where it does.
ReturnLogs(v, origin) == IF origin = "startup" THEN 1 ELSE WelcomeLogs(v)

\* A cycle begins with a call of fetchAndProcessEmails (one entry), or with
\* an await of the credential store.
BeginLogs(run) == IF run.pc = "list" THEN 1 ELSE 0

\* ------------------------------------------------- how a tick's run ends
\* Whether the caller of fetchAndProcessEmails awaits it inside a try block.
CallerCatches(v, origin) ==
  \/ origin \in {"startup", "callback"}
  \/ origin = "main" /\ MainTimerCatches(v)

\* Whether setInterval follows the awaited fetch in the caller.
StartsTimerAfter(v, origin) ==
  \/ origin = "startup"
  \/ origin = "callback" /\ CallbackStartsPolling(v)

TimerKind(origin) == IF origin = "startup" THEN "main" ELSE "cb"

\* The run in slot r ends, and its caller resumes.  outcome is "done" (the
\* loop ran to its end or the list was empty), "logged" (an error was caught
\* and logged), "refreshed" (the catch block refreshed and returned) or
\* "threw" (the rejection left fetchAndProcessEmails).
Finish(r, run, outcome) ==
  /\ runs' = [runs EXCEPT ![r] = [run EXCEPT !.pc = "ended", !.outcome = outcome]]
  /\ timers' = IF outcome # "threw" /\ StartsTimerAfter(variant, run.origin)
               THEN Append(timers, [kind |-> TimerKind(run.origin), client |-> run.gmail])
               ELSE timers
  /\ unhandled' = (unhandled \/ (outcome = "threw" /\ ~CallerCatches(variant, run.origin)))
  /\ resp' = IF run.origin = "callback"
             THEN IF outcome = "threw" /\ variant = "file"
                  THEN CallbackResp(500, "error")
                  ELSE CallbackResp(200, "success")
             ELSE resp

Continue(r, run) ==
  /\ runs' = [runs EXCEPT ![r] = run]
  /\ UNCHANGED <<timers, unhandled, resp>>

\* A loop that steps over the message at j without looking at it.
NextIndexSkipOne(msgs, j, skip) == j + 1

\* if (processedEmails.has(message.id)) continue;  -- no await: the skips of
\* consecutive processed ids happen in one resumption.
RECURSIVE NextIndex(_, _, _)
NextIndex(msgs, j, skip) ==
  IF j > Len(msgs) THEN j
  ELSE IF msgs[j] \in skip THEN NextIndex(msgs, j + 1, skip)
  ELSE j

SkipSet(v, processed) == IF UsesProcessedSet(v) THEN processed ELSE {}

\* The for loop moves on from index j0: the next messages.get, or the end.
Advance(r, run, j0) ==
  LET j == NextIndex(run.msgs, j0, SkipSet(variant, processedEmails))
  IN IF j > Len(run.msgs)
     THEN Finish(r, run, "done")
     ELSE Continue(r, [run EXCEPT !.pc = "get", !.i = j])

\* A provider call of the loop rejects: unauthorized (401) or another error.
Fail(r, run, kind) ==
  LET f == [run EXCEPT !.failed = TRUE]
  IN IF ~CatchesErrors(variant) THEN Finish(r, f, "threw")
     ELSE IF kind = "unauthorized" /\ RetriesOn401(variant)
       THEN Continue(r, [f EXCEPT !.pc = "rLoad", !.rctx = "retry"])
     ELSE IF kind = "unauthorized" /\ RefreshesBlankOn401(variant)
       THEN Continue(r, [f EXCEPT !.pc = "rCall", !.rctx = "blank", !.tok = NoToken])
     ELSE Finish(r, f, "logged")

\* A tick that goes on to fetch after its refresh has failed.
RefreshThrowsFetching(r, run) ==
  Continue(r, [run EXCEPT !.failed = TRUE, !.pc = "list", !.attempts = 1])

\* refreshAccessTokenIfNeeded (or the blank-client refresh) rejects.
RefreshThrows(r, run) ==
  LET f == [run EXCEPT !.failed = TRUE]
  IN IF run.rctx = "prelude" THEN Finish(r, f, "logged") ELSE Finish(r, f, "threw")

FailureKinds == {"unauthorized", "error"}

\* Whether the program has one OAuth2 client for all its calls: the first
\* server of index.ts and the JSON-silo program hand the client of authorize()
\* to their auth server, whose callbacks call setCredentials on it.
SharesClient(v) == v \in {"file", "silo"}

\* The client a pending provider call goes through.  Where the program has
\* one OAuth2 client (kept in gmailClient here), a call sees the credentials
\* that were set on it last.
CallClient(run) == IF SharesClient(variant) THEN gmailClient ELSE run.client

\* With neither an access nor a refresh token set, the library rejects the
\* call itself.
HasCredentials(run) == CallClient(run).at # 0 \/ CallClient(run).rt # 0

\* The pending call is answered with a rejection: a failure of the provider,
\* one of the environment's events, or the library's own for want of
\* credentials.
Rejects(run) ==
  IF HasCredentials(run)
  THEN CanEvent /\ events' = events + 1
  ELSE UNCHANGED events

\* The client was built from an access token older than the latest refresh.
Stale(run) == CallClient(run).at < lastRefreshed.at

\* What the identity provider may answer to a refresh or an exchange: a new
\* access token, with or without a new refresh token.
TokenResponses(iss) == {[at |-> iss + 1, rt |-> 0], [at |-> iss + 1, rt |-> iss + 1]}

\* A timer callback, as against the fetch at start-up or after the OAuth
\* callback.
TimerOrigins == {"main", "root", "cb"}

\* ---------------------------------------------- fetchAndProcessEmails steps
\* A cycle that clears the processed ids when it finds nothing to do.
ListedNothingClearing(r, run) ==
  /\ Finish(r, run, "done")
  /\ processedEmails' = {}
  /\ UNCHANGED <<store, unread>>

\* if (messages.length === 0) { addLog("No unread emails found."); return; }
ListedNothing(r, run) ==
  /\ Finish(r, run, "done")
  /\ UNCHANGED <<store, unread, processedEmails>>

\* for (const message of messages) { ... } starts with the first message
ListedSome(r, run) ==
  /\ Advance(r, run, 1)
  /\ UNCHANGED <<store, unread, processedEmails>>

\* await gmail.users.messages.list(...)
ProviderList(r) ==
  LET run == runs[r] IN
  /\ NoneEnded
  /\ run.pc = "list"
  /\ staleCall' = (staleCall \/ Stale(run))
  /\ UNCHANGED <<variant, storeCall, env, forwards, issued, gmailClient, booted, lastRefreshed>>
  /\ \/ /\ HasCredentials(run)
        /\ UNCHANGED events
        /\ LET msgs == ListUnread(unread)
               run1 == [run EXCEPT !.msgs = msgs, !.i = 0,
                                   !.listed = @ \cup Range(msgs)]
           IN IF Len(msgs) = 0
              THEN /\ ListedNothing(r, run1)
                   /\ Logs(2 + CallerLogs(variant, run.origin, FALSE))
              ELSE /\ ListedSome(r, run1)
                   /\ Logs(1 + LoopLogs(variant, runs'[r], 1))
     \/ /\ Rejects(run)
        /\ UNCHANGED <<store, unread, processedEmails>>
        /\ \E kind \in FailureKinds : Fail(r, run, kind)
        /\ Logs(FailLogs(variant, runs'[r]))

\* await gmail.users.messages.get(...), then the Subject filter
ProviderGet(r) ==
  LET run == runs[r]
      id == run.msgs[run.i]
  IN
  /\ NoneEnded
  /\ run.pc = "get"
  /\ staleCall' = (staleCall \/ Stale(run))
  /\ UNCHANGED <<variant, storeCall, env, forwards, store, issued, gmailClient, unread, processedEmails,
                 booted, lastRefreshed>>
  /\ \/ /\ HasCredentials(run)
        /\ UNCHANGED events
        /\ IF Accepted(variant, id)
           THEN /\ Continue(r, [run EXCEPT !.pc = "post"])
                /\ Logs(2)
           ELSE IF MarksSkipped(variant)
             THEN /\ Continue(r, [run EXCEPT !.pc = "modify"])
                  /\ Logs(1)
             ELSE /\ Advance(r, run, run.i + 1)
                  /\ Logs(1 + LoopLogs(variant, runs'[r], run.i + 1))
     \/ /\ Rejects(run)
        /\ \E kind \in FailureKinds : Fail(r, run, kind)
        /\ Logs(FailLogs(variant, runs'[r]))

\* A sendToDiscord that lets the rejection of axios.post through.
PostRejectedThrows(r, run, id) ==
  Finish(r, [run EXCEPT !.sent = Append(@, id), !.postFailed = @ \cup {id}], "threw")

\* sendToDiscord's catch block: the failure is logged, the function returns
\* and the loop goes on to messages.modify for the same message.
PostRejected(r, run, id) ==
  Continue(r, [run EXCEPT !.pc = "modify", !.sent = Append(@, id),
                          !.postFailed = @ \cup {id}])

\* await sendToDiscord(...): axios.post inside try/catch, then
\* processedEmails.add(message.id) where the variant keeps the set
WebhookPost(r) ==
  LET run == runs[r]
      id == run.msgs[run.i]
  IN
  /\ NoneEnded
  /\ run.pc = "post"
  /\ forwards' = [forwards EXCEPT ![id] = @ + 1]
  /\ processedEmails' = IF UsesProcessedSet(variant)
                        THEN processedEmails \cup {id} ELSE processedEmails
  /\ UNCHANGED <<variant, storeCall, env, store, issued, gmailClient, unread, booted,
                 lastRefreshed, staleCall>>
  /\ \/ /\ UNCHANGED events
        /\ Continue(r, [run EXCEPT !.pc = "modify", !.sent = Append(@, id)])
        /\ Logs(PostOkLogs(variant))
     \/ /\ CanEvent
        /\ events' = events + 1
        /\ PostRejected(r, run, id)
        /\ Logs(1 + PostOkLogs(variant))

\* await gmail.users.messages.modify({ removeLabelIds: ["UNREAD"] })
ProviderModify(r) ==
  LET run == runs[r]
      id == run.msgs[run.i]
  IN
  /\ NoneEnded
  /\ run.pc = "modify"
  /\ staleCall' = (staleCall \/ Stale(run))
  /\ UNCHANGED <<variant, storeCall, env, forwards, store, issued, gmailClient, processedEmails,
                 booted, lastRefreshed>>
  /\ \/ /\ HasCredentials(run)
        /\ UNCHANGED events
        /\ unread' = unread \ {id}
        /\ Advance(r, [run EXCEPT !.marked = @ \cup {id}], run.i + 1)
        /\ Logs(1 + LoopLogs(variant, runs'[r], run.i + 1))
     \/ /\ Rejects(run)
        /\ UNCHANGED unread
        /\ \E kind \in FailureKinds : Fail(r, run, kind)
        /\ Logs(FailLogs(variant, runs'[r]))

\* ------------------------------------------------------------ token refresh
\* The start-up timer of the processed variant: loadTokenFromFirebase and the
\* expiry test: the tick goes on to fetch, or the token expires within 15
\* minutes (the passing of its lifetime is one of the environment's events)
\* and the tick refreshes first, or the load rejects.
TokenLoad(r) ==
  LET run == runs[r] IN
  /\ NoneEnded
  /\ run.pc = "tLoad"
  /\ UNCHANGED <<variant, storeCall, env, forwards, store, issued, gmailClient, unread, processedEmails,
                 booted, lastRefreshed, staleCall>>
  /\ \/ /\ UNCHANGED events
        /\ Continue(r, [run EXCEPT !.pc = "list", !.client = gmailClient,
                                   !.attempts = 1])
        /\ Logs(1 + BeginLogs(runs'[r]))
     \/ /\ store.at # 0
        /\ CanEvent
        /\ events' = events + 1
        /\ Continue(r, [run EXCEPT !.pc = "rLoad", !.rctx = "prelude"])
        /\ Logs(1 + BeginLogs(runs'[r]))
     \/ /\ CanEvent
        /\ events' = events + 1
        /\ Finish(r, [run EXCEPT !.failed = TRUE], "logged")
        /\ Logs(1)

\* A test that only asks for a persisted record.
RefreshTokenMissingLax(token) == token.at = 0

\* if (!token || !token.refresh_token) throw ...
RefreshTokenMissing(token) == token.at = 0 \/ token.rt = 0

\* refreshAccessTokenIfNeeded: const token = await loadTokenFromFirebase()
RefreshLoad(r) ==
  LET run == runs[r] IN
  /\ NoneEnded
  /\ run.pc = "rLoad"
  /\ UNCHANGED <<variant, storeCall, env, forwards, store, issued, gmailClient, unread, processedEmails,
                 booted, lastRefreshed, staleCall>>
  /\ \/ /\ UNCHANGED events
        /\ IF RefreshTokenMissing(loadTokenFromFirebase(store))
           THEN /\ RefreshThrows(r, run)
                /\ Logs(1 + RefreshFailLogs(variant, run, FALSE))
           ELSE /\ Continue(r, [run EXCEPT !.pc = "rCall",
                                            !.tok = loadTokenFromFirebase(store)])
                /\ Logs(1)
     \/ /\ CanEvent
        /\ events' = events + 1
        /\ RefreshThrows(r, run)
        /\ Logs(RefreshFailLogs(variant, run, FALSE))

\* const { credentials } = await oAuth2Client.refreshAccessToken()
RefreshCall(r) ==
  LET run == runs[r] IN
  /\ NoneEnded
  /\ run.pc = "rCall"
  /\ UNCHANGED <<variant, storeCall, env, forwards, store, gmailClient, unread, processedEmails,
                 booted, lastRefreshed, staleCall>>
  /\ \/ /\ UNCHANGED events
        /\ issued' = issued + 1
        /\ \E c \in TokenResponses(issued) :
             Continue(r, [run EXCEPT !.pc = "rSave", !.cred = c])
        /\ Logs(0)
     \/ /\ CanEvent
        /\ events' = events + 1
        /\ UNCHANGED issued
        /\ RefreshThrows(r, run)
        /\ Logs(RefreshFailLogs(variant, run, FALSE))

\* What the refresh writes to the store.
RefreshedRecord(ctx, token, credentials) ==
  IF ctx = "blank" THEN credentials ELSE Merge(token, credentials)

\* await saveTokenToFirebase(...), then the new client is returned and used
RefreshSave(r) ==
  LET run == runs[r]
      newc == ClientOf([at |-> run.cred.at, rt |-> run.tok.rt])
  IN
  /\ NoneEnded
  /\ run.pc = "rSave"
  /\ UNCHANGED <<variant, storeCall, env, forwards, issued, unread, processedEmails, booted, staleCall>>
  /\ \/ /\ UNCHANGED events
        /\ store' = saveTokenToFirebase(store,
                       RefreshedRecord(run.rctx, run.tok, run.cred))
        /\ lastRefreshed' = run.cred
        /\ IF run.rctx = "blank"
           THEN /\ UNCHANGED gmailClient
                /\ Finish(r, run, "refreshed")
                /\ Logs(2 + CallerLogs(variant, run.origin, FALSE))
           ELSE /\ gmailClient' = IF run.rctx = "retry" \/ variant = "processed"
                                  THEN newc ELSE gmailClient
                /\ Continue(r, [run EXCEPT !.pc = "list", !.client = newc,
                                           !.msgs = <<>>, !.i = 0,
                                           !.attempts = @ + 1])
                /\ Logs(2 + (IF run.rctx = "prelude" /\ variant = "processed"
                             THEN 1 ELSE 0) + 1)
     \/ /\ CanEvent
        /\ events' = events + 1
        /\ UNCHANGED <<store, lastRefreshed, gmailClient>>
        /\ RefreshThrows(r, run)
        /\ Logs(RefreshFailLogs(variant, run, TRUE))

\* The ended run has been observed; its slot is free again.
Reap(r) ==
  /\ runs[r].pc = "ended"
  /\ runs' = [runs EXCEPT ![r] = IdleRun]
  /\ UNCHANGED <<variant, storeCall, env, logs, logged, forwards, store, issued, gmailClient, unread, processedEmails,
                 timers, booted, events, resp, unhandled, lastRefreshed, staleCall>>

\* ------------------------------------------------------- handlers in flight
\* A handler that is awaiting a credential-store or identity-provider call
\* before any fetch: authorize() called by the listen callback or by GET /,
\* and handleOAuthCallback.  It holds a slot like a cycle does.
\*   aLoad     authorize: await loadTokenFromFirebase()
\*   aToken    ensureValidAccessToken: await oAuth2Client.getAccessToken()
\*   aRefresh  ensureValidAccessToken: await oAuth2Client.refreshAccessToken()
\*   aSave     ensureValidAccessToken: await saveTokenToFirebase(credentials)
\*   sFetch    authorize of the JSON-silo program: await fetchToken()
\*   sValidate authorize of the JSON-silo program: await validateToken(oAuth2Client)
\*   xSave     handleOAuthCallback: await saveTokenToFirebase(tokens)
\*   lSave     the "tokens" listener: await saveTokenToFirebase({...token, ...newTokens})
HandlerPcs ==
  {"aLoad", "aToken", "aRefresh", "aSave", "sFetch", "sValidate", "xSave", "lSave"}

\* The calls of fetchAndProcessEmails (and of the refresh utility) in flight.
Cycles == {r \in RunIds : runs[r].pc \notin ({"idle"} \cup HandlerPcs)}

NewHandler(origin, pc) == [IdleRun EXCEPT !.origin = origin, !.pc = pc]

NewRun(origin, client, pc, ctx, attempts) ==
  [IdleRun EXCEPT !.origin = origin, !.gmail = client, !.client = client,
                  !.pc = pc, !.rctx = ctx, !.attempts = attempts,
                  !.alone = (Cycles = {})]

\* A call of fetchAndProcessEmails begins in slot r; the cycles already in
\* flight are no longer alone.
Place(r, run) ==
  [q \in RunIds |-> IF q = r THEN run
                    ELSE IF q \in Cycles THEN [runs[q] EXCEPT !.alone = FALSE]
                    ELSE runs[q]]

Begin(run) == Place(FreeSlot, run)

\* A handler starts to await in the free slot.
Park(run) == [runs EXCEPT ![FreeSlot] = run]

\* The handler of slot r is over.
Cleared(r) == [q \in RunIds |-> IF q = r THEN IdleRun ELSE runs[q]]

RootResp(body) == Resp("/", 200, body)

\* ---------------------------------------------------------------- authorize
\* authorize() returns the client.  The listen callback goes on to the first
\* fetch (gmailClient = gmail where the program keeps one); GET / calls
\* setInterval where the program does so and answers with the welcome page.
AuthorizeReturns(origin, r, client, n) ==
  /\ Logs(n + ReturnLogs(variant, origin))
  /\ IF origin = "startup"
     THEN /\ gmailClient' = IF variant \in {"retry", "processed"}
                            THEN client ELSE gmailClient
          /\ runs' = Place(r, NewRun("startup", client, "list", "none", 1))
          /\ UNCHANGED <<timers, resp>>
     ELSE /\ timers' = IF RootStartsTimer(variant)
                       THEN Append(timers, [kind |-> "root", client |-> client])
                       ELSE timers
          /\ resp' = RootResp("welcome")
          /\ runs' = Cleared(r)
          /\ UNCHANGED gmailClient

\* authorize() throws: the listen callback logs and returns, GET / answers
\* with the consent link (generateAuthUrl logs it).  n: the calls of addLog
\* the handler made in this resumption before that.
AuthorizeThrows(origin, r, n) ==
  /\ Logs(n + 1)
  /\ runs' = Cleared(r)
  /\ resp' = IF origin = "startup" THEN resp ELSE RootResp("consent")
  /\ UNCHANGED <<gmailClient, timers>>

\* authorize() after const token = await loadTokenFromFirebase():
\* if (token) { setCredentials(token); ... } else throw.  The "ensure" server
\* goes on to await ensureValidAccessToken(oAuth2Client).
\* loadTokenFromFirebase logs whether it found a record; authorize logs
\* that the token is set.
AuthorizeLoaded(origin, r, token, n) ==
  IF token.at = 0
  THEN AuthorizeThrows(origin, r, n + 1)
  ELSE IF variant = "ensure"
    THEN /\ runs' = [runs EXCEPT ![r] =
                       [NewHandler(origin, "aToken") EXCEPT !.tok = token]]
         /\ Logs(n + 1)
         /\ UNCHANGED <<gmailClient, timers, resp>>
    ELSE AuthorizeReturns(origin, r, AuthorizedClient(variant, token, token),
                          n + 2)

\* What refreshAccessToken() may answer on a client that holds the refresh
\* token rt: a new access token with no refresh token, with a new one, or
\* with the one the client holds.
RefreshResponses(iss, rt) == TokenResponses(iss) \cup {[at |-> iss + 1, rt |-> rt]}

\* ------------------------------------------------------------------ start-up
\* main() / the listen callback / startContinuousEmailProcessing up to its
\* first await.  The first server of index.ts reads token.json synchronously
\* and starts its HTTP server only when there is no token; the JSON-silo
\* program has no server while its authorize() awaits fetchToken(); the
\* others are listening while authorize() awaits the credential store.
Startup ==
  /\ booted = "no"
  /\ variant # "app"
  /\ IF variant = "file"
     THEN IF store.at # 0
          THEN /\ booted' = "noserver"
               /\ gmailClient' = AuthorizedClient(variant, store, store)
               /\ runs' = Begin(NewRun("startup", gmailClient',
                                        "list", "none", 1))
          ELSE /\ booted' = "up"
               /\ UNCHANGED <<runs, gmailClient>>
     ELSE IF variant = "silo"
       THEN /\ booted' = "noserver"
            /\ runs' = Park(NewHandler("startup", "sFetch"))
            /\ UNCHANGED gmailClient
       ELSE /\ booted' = "up"
            /\ runs' = Park(NewHandler("startup", "aLoad"))
            /\ UNCHANGED gmailClient
  /\ Logs(2)
  /\ UNCHANGED <<variant, storeCall, env, forwards, store, issued,
                 unread, processedEmails, timers, events, resp,
                 unhandled, lastRefreshed, staleCall>>

\* The listen callback's authorize(): loadTokenFromFirebase is answered.
AuthorizeLoad(r) ==
  LET run == runs[r] IN
  /\ NoneEnded
  /\ run.pc = "aLoad"
  /\ \/ /\ UNCHANGED events
        /\ AuthorizeLoaded(run.origin, r, loadTokenFromFirebase(store), 0)
     \/ /\ CanEvent
        /\ events' = events + 1
        /\ AuthorizeThrows(run.origin, r, 0)
  /\ UNCHANGED <<variant, storeCall, env, forwards, store, issued, unread,
                 processedEmails, booted, unhandled, lastRefreshed, staleCall>>

\* ensureValidAccessToken: const tokenInfo = await oAuth2Client.getAccessToken()
\* and the test Date.now() > expiryDate: the token is still good, or it has
\* expired (the passing of its lifetime is one of the environment's events),
\* or the call rejects.
AuthorizeToken(r) ==
  LET run == runs[r] IN
  /\ NoneEnded
  /\ run.pc = "aToken"
  /\ \/ /\ UNCHANGED events
        /\ AuthorizeReturns(run.origin, r,
                            AuthorizedClient(variant, run.tok, run.tok), 1)
     \/ /\ CanEvent
        /\ events' = events + 1
        /\ runs' = [runs EXCEPT ![r] = [run EXCEPT !.pc = "aRefresh"]]
        /\ Logs(1)
        /\ UNCHANGED <<gmailClient, timers, resp>>
     \/ /\ CanEvent
        /\ events' = events + 1
        /\ AuthorizeThrows(run.origin, r, 1)
  /\ UNCHANGED <<variant, storeCall, env, forwards, store, issued, unread,
                 processedEmails, booted, unhandled, lastRefreshed, staleCall>>

\* ensureValidAccessToken: const refreshedTokens = await oAuth2Client.refreshAccessToken()
AuthorizeRefresh(r) ==
  LET run == runs[r] IN
  /\ NoneEnded
  /\ run.pc = "aRefresh"
  /\ \/ /\ UNCHANGED events
        /\ issued' = issued + 1
        /\ \E c \in RefreshResponses(issued, run.tok.rt) :
             runs' = [runs EXCEPT ![r] = [run EXCEPT !.pc = "aSave", !.cred = c]]
        /\ Logs(0)
        /\ UNCHANGED <<gmailClient, timers, resp>>
     \/ /\ CanEvent
        /\ events' = events + 1
        /\ UNCHANGED issued
        /\ AuthorizeThrows(run.origin, r, 1)
  /\ UNCHANGED <<variant, storeCall, env, forwards, store, unread,
                 processedEmails, booted, unhandled, lastRefreshed, staleCall>>

\* ensureValidAccessToken: await saveTokenToFirebase(refreshedTokens.credentials)
\* -- the credentials are saved as they are.
AuthorizeSave(r) ==
  LET run == runs[r] IN
  /\ NoneEnded
  /\ run.pc = "aSave"
  /\ \/ /\ UNCHANGED events
        /\ store' = saveTokenToFirebase(store, run.cred)
        /\ lastRefreshed' = run.cred
        /\ AuthorizeReturns(run.origin, r,
                            AuthorizedClient(variant, run.tok, run.cred), 3)
     \/ /\ CanEvent
        /\ events' = events + 1
        /\ UNCHANGED <<store, lastRefreshed>>
        /\ AuthorizeThrows(run.origin, r, 1)
  /\ UNCHANGED <<variant, storeCall, env, forwards, issued, unread,
                 processedEmails, booted, unhandled, staleCall>>

\* ------------------------------------------- authorize, the JSON-silo program
\* response.data of axios.get(JSON_SILO_URL): the document the silo holds.
fetchToken(db) == db

\* authorize() after await fetchToken(): setCredentials(token), the "tokens"
\* listener is registered and validateToken is awaited.  When fetchToken
\* rejects, the catch block starts the auth server (startAuthServer awaits
\* nothing), authorize returns the client as it is and main goes on to
\* fetchAndProcessEmails(gmail).
FetchToken(r) ==
  LET run == runs[r] IN
  /\ NoneEnded
  /\ run.pc = "sFetch"
  /\ \/ /\ UNCHANGED <<events, booted>>
        /\ gmailClient' = [ClientOf(fetchToken(store)) EXCEPT !.on = TRUE]
        /\ runs' = [runs EXCEPT ![r] = [run EXCEPT !.pc = "sValidate",
                                                   !.tok = fetchToken(store)]]
     \/ /\ CanEvent
        /\ events' = events + 1
        /\ booted' = "up"
        /\ UNCHANGED gmailClient
        /\ runs' = Place(r, NewRun("startup", gmailClient, "list", "none", 1))
  /\ UNCHANGED <<variant, storeCall, env, logs, logged, forwards, store, issued, unread,
                 processedEmails, timers, resp, unhandled, lastRefreshed,
                 staleCall>>

\* authorize() after await validateToken(oAuth2Client), which asks the
\* provider for the profile: main goes on to fetchAndProcessEmails(gmail),
\* through the catch block and startAuthServer when the call was rejected.
ValidateToken(r) ==
  LET run == runs[r] IN
  /\ NoneEnded
  /\ run.pc = "sValidate"
  /\ \/ /\ HasCredentials(run)
        /\ UNCHANGED <<events, booted>>
     \/ /\ Rejects(run)
        /\ booted' = "up"
  /\ runs' = Place(r, NewRun("startup", gmailClient, "list", "none", 1))
  /\ UNCHANGED <<variant, storeCall, env, logs, logged, forwards, store, issued,
                 gmailClient, unread, processedEmails, timers, resp, unhandled,
                 lastRefreshed, staleCall>>

\* ---------------------------------------------------------------- GET /
\* The request, up to the handler's first await: authorize() logs and awaits
\* loadTokenFromFirebase().  The auth servers of the first program of
\* index.ts and of the JSON-silo program answer with the consent page.
GetRoot ==
  /\ NoneEnded
  /\ booted = "up"
  /\ variant # "app"
  /\ CanEvent
  /\ events' = events + 1
  /\ IF variant \in {"file", "silo"}
     THEN /\ resp' = RootResp("consent")
          /\ UNCHANGED <<runs, logs, logged>>
     ELSE /\ HasFreeSlot
          /\ runs' = Park(NewHandler("home", "aLoad"))
          /\ Logs(1)
          /\ UNCHANGED resp
  /\ UNCHANGED <<variant, storeCall, env, forwards, store, issued, gmailClient, unread,
                 processedEmails, timers, booted, unhandled, lastRefreshed,
                 staleCall>>

\* --------------------------------------------- requests that are only answered
\* A request whose handler sends its answer and touches nothing else.
Answers(r) ==
  /\ NoneEnded
  /\ booted = "up"
  /\ CanEvent
  /\ events' = events + 1
  /\ resp' = r
  /\ UNCHANGED <<variant, storeCall, env, logs, logged, forwards, store, issued,
                 gmailClient, unread, processedEmails, timers, runs, booted,
                 unhandled, lastRefreshed, staleCall>>

\* app.get("/logs"): res.json(logs)
GetLogs ==
  /\ variant \in LogVariants
  /\ Answers([Resp("/logs", 200, "json") EXCEPT !.json = logs])

\* app.get("/logview"): res.sendFile(__dirname + "/frontend.html")
GetLogView ==
  /\ variant \in LogVariants
  /\ Answers(Resp("/logview", 200, "file"))

\* The socket server's app.get("/logs"): res.sendFile(... "/frontend.html")
GetLogsPage ==
  /\ variant = "socket"
  /\ Answers(Resp("/logs", 200, "file"))

\* The socket server's app.get("/authorize"): the consent link.
GetAuthorize ==
  /\ variant = "socket"
  /\ Answers(Resp("/authorize", 200, "consent"))

\* app.use(express.static(...)) of the token utility: the file asked for, or
\* 404 when the directory holds none of that name.
GetStatic ==
  /\ variant = "app"
  /\ \E found \in BOOLEAN :
       Answers(IF found THEN Resp("static", 200, "file")
               ELSE Resp("static", 404, "none"))

\* ------------------------------------------------------- GET /oauth2callback
CallbackNoCodeExchanging ==
  /\ NoneEnded
  /\ booted = "up"
  /\ CanEvent
  /\ events' = events + 1
  /\ issued' = issued + 1
  /\ store' = [at |-> issued + 1, rt |-> issued + 1]
  /\ resp' = CallbackResp(400, "error")
  /\ UNCHANGED <<variant, storeCall, env, logs, logged, forwards, gmailClient, unread,
                 processedEmails, timers, runs, booted, unhandled,
                 lastRefreshed, staleCall>>

\* if (!code) { res.status(400)... }
CallbackNoCode ==
  /\ NoneEnded
  /\ booted = "up"
  /\ CanEvent
  /\ events' = events + 1
  /\ resp' = CallbackResp(400, "error")
  /\ UNCHANGED <<variant, storeCall, env, logs, logged, forwards, store, issued, gmailClient, unread, processedEmails,
                 timers, runs, booted, unhandled, lastRefreshed, staleCall>>

\* oAuth2Client.getToken(code) rejects
CallbackBadCode ==
  /\ NoneEnded
  /\ booted = "up"
  /\ CanEvent
  /\ events' = events + 1
  /\ resp' = IF variant = "processed"
             THEN CallbackResp(302, "redirect")
             ELSE CallbackResp(500, "error")
  /\ Logs(1)
  /\ UNCHANGED <<variant, storeCall, env, forwards, store, issued, gmailClient, unread, processedEmails,
                 timers, runs, booted, unhandled, lastRefreshed, staleCall>>

\* A handler that saves whatever the exchange answers.
MissingRefreshTokenNever(tokens) == FALSE

\* if (!tokens.refresh_token) { ...; throw new Error("Missing refresh token...") }
MissingRefreshToken(tokens) == tokens.rt = 0

\* What the endpoint answers when handleOAuthCallback has returned and no
\* fetch follows: the processed-set server redirects to /, the socket server
\* answers 200.
CallbackDone == IF variant = "processed"
                THEN CallbackResp(302, "redirect")
                ELSE CallbackResp(200, "success")

\* What the endpoint answers when saveTokenToFirebase rejects: the
\* processed-set server's handleOAuthCallback catches and logs, so the
\* endpoint still redirects.
CallbackFailed == IF variant = "processed"
                  THEN CallbackResp(302, "redirect")
                  ELSE CallbackResp(500, "error")

\* The processed-set server's handleOAuthCallback when getToken has answered
\* with tokens: without a refresh token it throws into its own catch, which
\* logs, and the endpoint redirects; otherwise it awaits saveTokenToFirebase.
CallbackProcessedWith(tokens) ==
  /\ NoneEnded
  /\ booted = "up"
  /\ variant = "processed"
  /\ CanEvent
  /\ events' = events + 1
  /\ issued' = issued + 1
  /\ IF MissingRefreshToken(tokens)
     THEN /\ resp' = CallbackDone
          /\ Logs(2)
          /\ UNCHANGED runs
     ELSE /\ HasFreeSlot
          /\ runs' = Park([NewHandler("callback", "xSave") EXCEPT !.cred = tokens])
          /\ UNCHANGED <<resp, logs, logged>>
  /\ UNCHANGED <<variant, storeCall, env, forwards, store, gmailClient,
                 unread, processedEmails, timers, booted, unhandled,
                 lastRefreshed, staleCall>>

CallbackProcessed ==
  \E tokens \in TokenResponses(issued) : CallbackProcessedWith(tokens)

\* The socket server's handleOAuthCallback when getToken has answered: it
\* awaits saveTokenToFirebase(tokens); no fetch and no timer follow.
CallbackSocket ==
  /\ NoneEnded
  /\ booted = "up"
  /\ variant = "socket"
  /\ CanEvent
  /\ HasFreeSlot
  /\ events' = events + 1
  /\ issued' = issued + 1
  /\ \E tokens \in TokenResponses(issued) :
       runs' = Park([NewHandler("callback", "xSave") EXCEPT !.cred = tokens])
  /\ UNCHANGED <<variant, storeCall, env, logs, logged, forwards, store, gmailClient,
                 unread, processedEmails, timers, booted, resp, unhandled,
                 lastRefreshed, staleCall>>

\* The auth server of the JSON-silo program when getToken has answered:
\* setCredentials(tokens) on the client main's gmail uses, then it awaits
\* saveToken(tokens); no fetch and no timer follow.
CallbackSilo ==
  /\ NoneEnded
  /\ booted = "up"
  /\ variant = "silo"
  /\ CanEvent
  /\ HasFreeSlot
  /\ events' = events + 1
  /\ issued' = issued + 1
  /\ \E tokens \in TokenResponses(issued) :
       /\ gmailClient' = [gmailClient EXCEPT !.at = tokens.at, !.rt = tokens.rt]
       /\ runs' = Park([NewHandler("callback", "xSave") EXCEPT !.cred = tokens])
  /\ UNCHANGED <<variant, storeCall, env, logs, logged, forwards, store,
                 unread, processedEmails, timers, booted, resp, unhandled,
                 lastRefreshed, staleCall>>

\* The servers of index.ts when getToken has answered.  The first calls
\* setCredentials(tokens) on the one client of its auth server, writes
\* token.json synchronously (a failing write is answered with 500) and
\* fetches at once; the others await saveTokenToFirebase(tokens).
CallbackFetch ==
  /\ NoneEnded
  /\ booted = "up"
  /\ variant \in {"file", "retry", "basic", "ensure"}
  /\ CanEvent
  /\ issued' = issued + 1
  /\ \E tokens \in TokenResponses(issued) :
       IF variant = "file"
       THEN /\ gmailClient' = [gmailClient EXCEPT !.at = tokens.at, !.rt = tokens.rt]
            /\ \/ /\ HasFreeSlot
                  /\ events' = events + 1
                  /\ store' = tokens
                  /\ runs' = Begin(NewRun("callback", gmailClient', "list", "none", 1))
                  /\ UNCHANGED resp
               \/ /\ events + 2 <= MaxEvents
                  /\ events' = events + 2
                  /\ resp' = CallbackResp(500, "error")
                  /\ UNCHANGED <<store, runs>>
       ELSE /\ HasFreeSlot
            /\ events' = events + 1
            /\ runs' = Park([NewHandler("callback", "xSave") EXCEPT !.cred = tokens])
            /\ UNCHANGED <<store, resp, gmailClient>>
  /\ UNCHANGED <<variant, storeCall, env, logs, logged, forwards, unread, processedEmails, timers,
                 booted, unhandled, lastRefreshed, staleCall>>

\* handleOAuthCallback after await saveTokenToFirebase(tokens): the record is
\* written when the call is answered.  Then the first fetch begins where the
\* program fetches at once, or the endpoint answers.
CallbackSave(r) ==
  LET run == runs[r] IN
  /\ NoneEnded
  /\ run.pc = "xSave"
  /\ \/ /\ UNCHANGED events
        /\ store' = saveTokenToFirebase(store, run.cred)
        /\ IF CallbackStartsPolling(variant)
           THEN /\ runs' = Place(r, NewRun("callback", ClientOf(run.cred), "list", "none", 1))
                /\ Logs(4)
                /\ UNCHANGED resp
           ELSE /\ runs' = Cleared(r)
                /\ Logs(2)
                /\ resp' = CallbackDone
     \/ /\ CanEvent
        /\ events' = events + 1
        /\ UNCHANGED store
        /\ runs' = Cleared(r)
        /\ resp' = CallbackFailed
        /\ Logs(IF variant = "processed" THEN 2 ELSE 1)
  /\ UNCHANGED <<variant, storeCall, env, forwards, issued, gmailClient,
                 unread, processedEmails, timers, booted, unhandled,
                 lastRefreshed, staleCall>>

\* ------------------------------------------------- the token utility (app.ts)
\* app.listen(PORT, ...): the utility only serves requests.
StartupApp ==
  /\ booted = "no"
  /\ variant = "app"
  /\ booted' = "up"
  /\ UNCHANGED <<variant, storeCall, env, logs, logged, forwards, store, issued, gmailClient, unread,
                 processedEmails, timers, runs, events, resp, unhandled,
                 lastRefreshed, staleCall>>

\* GET /oauth2callback with a code the provider accepts: the tokens are
\* written to token.json as they are; a failing write answers 500.
CallbackApp ==
  /\ NoneEnded
  /\ booted = "up"
  /\ variant = "app"
  /\ CanEvent
  /\ issued' = issued + 1
  /\ \E tokens \in TokenResponses(issued) :
       \/ /\ events' = events + 1
          /\ store' = tokens
          /\ resp' = CallbackResp(200, "success")
       \/ /\ events + 2 <= MaxEvents
          /\ events' = events + 2
          /\ resp' = CallbackResp(500, "error")
          /\ UNCHANGED store
  /\ UNCHANGED <<variant, storeCall, env, logs, logged, forwards, gmailClient, unread, processedEmails, timers,
                 runs, booted, unhandled, lastRefreshed, staleCall>>

GenerateResp(status, body) == Resp("/generate-token", status, body)

\* POST /generate-token: refreshAccessToken() up to its await.  The token
\* file is read synchronously; a missing file or refresh token is caught
\* and answered with 500.
GenerateToken ==
  /\ NoneEnded
  /\ booted = "up"
  /\ variant = "app"
  /\ CanEvent
  /\ HasFreeSlot
  /\ events' = events + 1
  /\ IF RefreshTokenMissing(store)
     THEN /\ resp' = GenerateResp(500, "error")
          /\ UNCHANGED runs
     ELSE /\ resp' = GenerateResp(0, "pending")
          /\ runs' = Begin([NewRun("api", NoClient, "aCall", "api", 0)
                              EXCEPT !.tok = store])
  /\ UNCHANGED <<variant, storeCall, env, logs, logged, forwards, store, issued, gmailClient, unread,
                 processedEmails, timers, booted, unhandled, lastRefreshed,
                 staleCall>>

\* refreshAccessToken() after its await: the merged record is written to
\* token.json and returned; or the catch block makes the route answer 500,
\* when the provider call rejects (nothing was issued) and when it was
\* answered and fs.writeFileSync throws (token.json stays as it was).
ApiRefreshCall(r) ==
  LET run == runs[r] IN
  /\ NoneEnded
  /\ run.pc = "aCall"
  /\ \/ /\ UNCHANGED events
        /\ issued' = issued + 1
        /\ \E c \in TokenResponses(issued) :
             /\ store' = RefreshedRecord(run.rctx, run.tok, c)
             /\ lastRefreshed' = c
             /\ runs' = [runs EXCEPT ![r] = [run EXCEPT !.pc = "ended", !.cred = c,
                                                       !.outcome = "refreshed"]]
        /\ resp' = GenerateResp(200, "success")
     \/ /\ CanEvent
        /\ events' = events + 1
        /\ resp' = GenerateResp(500, "error")
        /\ runs' = [runs EXCEPT ![r] = [run EXCEPT !.pc = "ended", !.failed = TRUE,
                                                  !.outcome = "logged"]]
        /\ UNCHANGED <<store, lastRefreshed>>
        /\ \/ UNCHANGED issued
           \/ issued' = issued + 1
  /\ UNCHANGED <<variant, storeCall, env, logs, logged, forwards, gmailClient, unread, processedEmails, timers,
                 booted, unhandled, staleCall>>

\* ------------------------------------------------------- the "tokens" event
\* authorize() registers a listener on the client it builds; the listener
\* closes over the record authorize loaded.  The library emits "tokens"
\* whenever that client obtains new tokens, which it does on its own when its
\* access token has expired at the moment of a call, and when it is asked
\* for a token or a refresh.
\* The record closed over by the listener of the client whose call the slot
\* awaits (NoToken: the call goes through no client with a listener).
ListenerOf(run) ==
  IF run.pc \in {"list", "get", "modify"} THEN CallClient(run).lis
  ELSE IF run.pc \in {"aToken", "aRefresh"} /\ RegistersListener(variant)
    THEN run.tok
  ELSE NoToken

\* Whether that client has a listener.
ListenerOn(run) ==
  IF run.pc \in {"list", "get", "modify", "sValidate"} THEN CallClient(run).on
  ELSE run.pc \in {"aToken", "aRefresh"} /\ RegistersListener(variant)

\* The refresh token that client holds: without one it cannot refresh.
RefreshTokenOf(run) ==
  IF run.pc \in {"list", "get", "modify", "sValidate"}
  THEN CallClient(run).rt ELSE run.tok.rt

\* The client of the call pending in slot r obtains new tokens and emits
\* "tokens".  The listener of the first server of index.ts writes them to
\* token.json as they are, when they carry a refresh token; that of the
\* JSON-silo program awaits saveToken(tokens) when they do; the others log
\* and await saveTokenToFirebase({ ...token, ...newTokens }).
TokensEmit(r) ==
  LET run == runs[r]
      token == ListenerOf(run)
  IN
  /\ NoneEnded
  /\ ListenerOn(run)
  /\ RefreshTokenOf(run) # 0
  /\ CanEvent
  /\ events' = events + 1
  /\ issued' = issued + 1
  /\ \E newTokens \in TokenResponses(issued) :
       IF variant = "file"
       THEN /\ store' = IF newTokens.rt # 0 THEN newTokens ELSE store
            /\ UNCHANGED <<runs, logs, logged>>
       ELSE IF variant = "silo"
       THEN /\ IF newTokens.rt # 0
               THEN /\ HasFreeSlot
                    /\ runs' = Park([NewHandler("listener", "lSave")
                                       EXCEPT !.cred = newTokens])
               ELSE UNCHANGED runs
            /\ UNCHANGED <<store, logs, logged>>
       ELSE /\ HasFreeSlot
            /\ runs' = Park([NewHandler("listener", "lSave")
                               EXCEPT !.cred = Merge(token, newTokens)])
            /\ Logs(IF newTokens.rt # 0 THEN 1 ELSE 0)
            /\ UNCHANGED store
  /\ UNCHANGED <<variant, storeCall, env, forwards, gmailClient, unread,
                 processedEmails, timers, booted, resp, unhandled,
                 lastRefreshed, staleCall>>

\* The listener after await saveTokenToFirebase(...): the merged record is
\* written when the call is answered.  Nothing catches a rejection of the
\* listener's promise.
ListenerSave(r) ==
  LET run == runs[r] IN
  /\ NoneEnded
  /\ run.pc = "lSave"
  /\ runs' = Cleared(r)
  /\ \/ /\ UNCHANGED <<events, unhandled>>
        /\ store' = saveTokenToFirebase(store, run.cred)
        /\ Logs(2)
     \/ /\ CanEvent
        /\ events' = events + 1
        /\ unhandled' = TRUE
        /\ Logs(IF variant = "processed" THEN 1 ELSE 0)
        /\ UNCHANGED store
  /\ UNCHANGED <<variant, storeCall, env, forwards, issued, gmailClient, unread,
                 processedEmails, timers, booted, resp, lastRefreshed,
                 staleCall>>

\* ------------------------------------------------------------------- timers
\* An interval fires: setInterval does not wait for the previous callback's
\* promise, so a tick may start while earlier ones are still awaiting.
TickBegins(tm) ==
  /\ NoneEnded
  /\ HasFreeSlot
  /\ runs' = Begin(
       IF tm.kind = "main" /\ variant = "processed"
         THEN NewRun("main", tm.client, "tLoad", "none", 0)
       ELSE IF tm.kind = "main" /\ variant = "retry"
         THEN NewRun("main", tm.client, "rLoad", "prelude", 0)
       ELSE NewRun(tm.kind, tm.client, "list", "none", 1))
  /\ Logs(BeginLogs(runs'[FreeSlot]))
  /\ UNCHANGED <<variant, storeCall, env, forwards, store, issued, gmailClient, unread, processedEmails,
                 timers, booted, resp, unhandled, lastRefreshed, staleCall>>

\* A firing of the interval is one of the environment's events.
TimerFire(t) ==
  /\ CanEvent
  /\ events' = events + 1
  /\ TickBegins(timers[t])

Next ==
  \/ Startup
  \/ StartupApp
  \/ CallbackApp
  \/ GenerateToken
  \/ \E r \in RunIds : ApiRefreshCall(r)
  \/ GetStatic
  \/ GetRoot
  \/ GetLogs
  \/ GetLogView
  \/ GetLogsPage
  \/ GetAuthorize
  \/ CallbackNoCode
  \/ CallbackBadCode
  \/ CallbackProcessed
  \/ CallbackSocket
  \/ CallbackSilo
  \/ CallbackFetch
  \/ \E r \in RunIds : CallbackSave(r)
  \/ \E r \in RunIds : AuthorizeLoad(r)
  \/ \E r \in RunIds : AuthorizeToken(r)
  \/ \E r \in RunIds : AuthorizeRefresh(r)
  \/ \E r \in RunIds : AuthorizeSave(r)
  \/ \E r \in RunIds : FetchToken(r)
  \/ \E r \in RunIds : ValidateToken(r)
  \/ \E r \in RunIds : TokensEmit(r)
  \/ \E r \in RunIds : ListenerSave(r)
  \/ \E t \in 1..Len(timers) : TimerFire(t)
  \/ \E r \in RunIds : ProviderList(r)
  \/ \E r \in RunIds : ProviderGet(r)
  \/ \E r \in RunIds : WebhookPost(r)
  \/ \E r \in RunIds : ProviderModify(r)
  \/ \E r \in RunIds : TokenLoad(r)
  \/ \E r \in RunIds : RefreshLoad(r)
  \/ \E r \in RunIds : RefreshCall(r)
  \/ \E r \in RunIds : RefreshSave(r)
  \/ \E r \in RunIds : Reap(r)

Spec == Init /\ [][Next]_vars

\* ------------------------------------------------- loading the configuration
\* The servers that read process.env, before their module has run.
EnvVariants == {"retry", "basic", "ensure", "processed", "socket", "silo"}

InitConfig ==
  /\ variant \in EnvVariants
  /\ env \in SUBSET ConfigNames
  /\ store \in {NoToken, [at |-> 1, rt |-> 1]}
  /\ issued = 1
  /\ gmailClient = NoClient
  /\ unread = {}
  /\ processedEmails = {}
  /\ timers = <<>>
  /\ runs = [r \in RunIds |-> IdleRun]
  /\ booted = "cold"
  /\ events = 0
  /\ resp = NoResp
  /\ unhandled = FALSE
  /\ lastRefreshed = NoToken
  /\ staleCall = FALSE
  /\ forwards = [id \in MsgIds |-> 0]
  /\ logs = <<>>
  /\ logged = 0
  /\ storeCall = NoStoreCall

\* The top of the module: process.exit(1) when a required name is missing,
\* otherwise the module goes on to app.listen.
LoadConfig ==
  /\ booted = "cold"
  /\ booted' = IF MissingConfig(variant, env) THEN "exited" ELSE "no"
  /\ UNCHANGED <<variant, storeCall, env, logs, logged, store, issued, gmailClient,
                 unread, processedEmails, timers, runs, events, resp,
                 unhandled, lastRefreshed, staleCall, forwards>>

NextConfig ==
  \/ LoadConfig
  \/ Startup
  \/ \E r \in RunIds : AuthorizeLoad(r)
  \/ \E r \in RunIds : AuthorizeToken(r)
  \/ \E r \in RunIds : AuthorizeRefresh(r)
  \/ \E r \in RunIds : AuthorizeSave(r)
  \/ \E r \in RunIds : FetchToken(r)
  \/ \E r \in RunIds : ValidateToken(r)
  \/ \E r \in RunIds : TokensEmit(r)
  \/ \E r \in RunIds : ListenerSave(r)

SpecConfig == InitConfig /\ [][NextConfig]_vars

\* ------------------------------------------------------- a timer that goes on
\* The interval keeps firing for as long as the process lives, so its ticks
\* are not counted among the bounded environment events here; the failures of
\* provider, webhook, store and refresh calls and the HTTP requests still
\* are, so that from some point on every call succeeds; all but one of them
\* are used up from the start.  A tick begins whatever is in flight, as long
\* as a slot is free.
\* (The second server of index.ts refreshes on every tick of its timer, so its
\* token ids grow for ever; it is left to the bounded specification.)
PollingVariants == {"file", "basic", "ensure", "processed", "socket", "silo"}

InitLive ==
  /\ variant \in PollingVariants
  /\ store \in {NoToken, [at |-> 1, rt |-> 1]}
  /\ issued = 1
  /\ gmailClient = NoClient
  /\ unread = MsgIds
  /\ processedEmails = {}
  /\ timers = <<>>
  /\ runs = [r \in RunIds |-> IdleRun]
  /\ booted = "no"
  /\ events = MaxEvents - 1
  /\ resp = NoResp
  /\ unhandled = FALSE
  /\ lastRefreshed = NoToken
  /\ staleCall = FALSE
  /\ forwards = [id \in MsgIds |-> 0]
  /\ logs = <<>>
  /\ logged = 0
  /\ storeCall = NoStoreCall
  /\ env = ConfigNames

TimerTick(t) ==
  /\ UNCHANGED events
  /\ TickBegins(timers[t])

RunStep(r) ==
  \/ AuthorizeLoad(r)
  \/ AuthorizeToken(r)
  \/ AuthorizeRefresh(r)
  \/ AuthorizeSave(r)
  \/ FetchToken(r)
  \/ ValidateToken(r)
  \/ CallbackSave(r)
  \/ ListenerSave(r)
  \/ ProviderList(r)
  \/ ProviderGet(r)
  \/ WebhookPost(r)
  \/ ProviderModify(r)
  \/ TokenLoad(r)
  \/ RefreshLoad(r)
  \/ RefreshCall(r)
  \/ RefreshSave(r)

NextLive ==
  \/ Startup
  \/ GetRoot
  \/ GetLogs
  \/ GetLogView
  \/ GetLogsPage
  \/ GetAuthorize
  \/ CallbackNoCode
  \/ CallbackBadCode
  \/ CallbackProcessed
  \/ CallbackSocket
  \/ CallbackSilo
  \/ CallbackFetch
  \/ \E r \in RunIds : CallbackSave(r)
  \/ \E r \in RunIds : AuthorizeLoad(r)
  \/ \E r \in RunIds : AuthorizeToken(r)
  \/ \E r \in RunIds : AuthorizeRefresh(r)
  \/ \E r \in RunIds : AuthorizeSave(r)
  \/ \E r \in RunIds : FetchToken(r)
  \/ \E r \in RunIds : ValidateToken(r)
  \/ \E r \in RunIds : TokensEmit(r)
  \/ \E r \in RunIds : ListenerSave(r)
  \/ \E t \in 1..Len(timers) : TimerTick(t)
  \/ \E r \in RunIds : ProviderList(r)
  \/ \E r \in RunIds : ProviderGet(r)
  \/ \E r \in RunIds : WebhookPost(r)
  \/ \E r \in RunIds : ProviderModify(r)
  \/ \E r \in RunIds : TokenLoad(r)
  \/ \E r \in RunIds : RefreshLoad(r)
  \/ \E r \in RunIds : RefreshCall(r)
  \/ \E r \in RunIds : RefreshSave(r)
  \/ \E r \in RunIds : Reap(r)

\* Every pending call is answered, every ended call is observed, and the
\* interval fires again and again.
SpecLive ==
  /\ InitLive
  /\ [][NextLive]_vars
  /\ WF_vars(Startup)
  /\ \A r \in RunIds : WF_vars(RunStep(r)) /\ WF_vars(Reap(r))
  /\ WF_vars(\E t \in 1..Len(timers) : TimerTick(t))

\* ------------------------------------------- a provider that always says 401
\* The servers whose catch block refreshes and calls fetchAndProcessEmails
\* again, with a provider that answers every messages.list with 401 and an
\* identity provider that grants every refresh (no other failure occurs:
\* the environment events are used up from the start).
RetryVariants == {"retry", "processed"}

InitUnauthorized ==
  /\ variant \in RetryVariants
  /\ store = [at |-> 1, rt |-> 1]
  /\ issued = 1
  /\ gmailClient = NoClient
  /\ unread \in {{}, MsgIds}
  /\ processedEmails = {}
  /\ timers = <<>>
  /\ runs = [r \in RunIds |-> IdleRun]
  /\ booted = "no"
  /\ events = MaxEvents
  /\ resp = NoResp
  /\ unhandled = FALSE
  /\ lastRefreshed = NoToken
  /\ staleCall = FALSE
  /\ forwards = [id \in MsgIds |-> 0]
  /\ logs = <<>>
  /\ logged = 0
  /\ storeCall = NoStoreCall
  /\ env = ConfigNames

\* await gmail.users.messages.list(...) rejects with status 401
ListUnauthorized(r) ==
  LET run == runs[r] IN
  /\ run.pc = "list"
  /\ run.attempts <= MaxDepth
  /\ staleCall' = (staleCall \/ Stale(run))
  /\ Fail(r, run, "unauthorized")
  /\ Logs(FailLogs(variant, runs'[r]))
  /\ UNCHANGED <<variant, storeCall, env, forwards, store, issued,
                 gmailClient, unread, processedEmails, booted, events,
                 lastRefreshed>>

NextUnauthorized ==
  \/ Startup
  \/ \E r \in RunIds : AuthorizeLoad(r)
  \/ \E r \in RunIds : ListUnauthorized(r)
  \/ \E r \in RunIds : RefreshLoad(r)
  \/ \E r \in RunIds : RefreshCall(r)
  \/ \E r \in RunIds : RefreshSave(r)

SpecUnauthorized == InitUnauthorized /\ [][NextUnauthorized]_vars

\* ------------------------------------------------------- the log buffer alone
\* The buffer by itself: each AddLog step is one call of addLog, by whichever
\* handler makes it, and GET /logs may be served between any two calls.
InitLog ==
  /\ variant \in LogVariants
  /\ store = NoToken
  /\ issued = 1
  /\ gmailClient = NoClient
  /\ unread = {}
  /\ processedEmails = {}
  /\ timers = <<>>
  /\ runs = [r \in RunIds |-> IdleRun]
  /\ booted = "up"
  /\ events = 0
  /\ resp = NoResp
  /\ unhandled = FALSE
  /\ lastRefreshed = NoToken
  /\ staleCall = FALSE
  /\ forwards = [id \in MsgIds |-> 0]
  /\ logs = <<>>
  /\ logged = 0
  /\ storeCall = NoStoreCall
  /\ env = ConfigNames

AddLog ==
  /\ Logs(1)
  /\ UNCHANGED <<variant, storeCall, env, store, issued, gmailClient, unread,
                 processedEmails, timers, runs, booted, events, resp,
                 unhandled, lastRefreshed, staleCall, forwards>>

NextLog ==
  \/ AddLog
  \/ GetLogs

SpecLog == InitLog /\ [][NextLog]_vars

\* ---------------------------------------------------- the token store alone
\* saveTokenToFirebase and loadTokenFromFirebase by themselves, called by
\* whichever handler calls them, any number of calls in flight at a time;
\* set(...) and get(...) are answered in any order, and either may reject.
StoreVariants == {"retry", "basic", "ensure", "processed", "socket"}

\* The credentials the callers pass: what getToken and refreshAccessToken
\* return always has an access token, a scope, a token type and an expiry
\* date, and may have a refresh token and an id token.
Credentials ==
  [at : {1, 2}, rt : {0, 1}, scope : {1}, token_type : {1},
   expiry_date : {1, 2}, id_token : {0, 1}]

InitStore ==
  /\ variant \in StoreVariants
  /\ store \in {NoToken,   \* or what an earlier process has saved:
                saveTokenToFirebase(NoToken,
                  [at |-> 1, rt |-> 1, scope |-> 1, token_type |-> 1,
                   expiry_date |-> 1, id_token |-> 0])}
  /\ issued = 1
  /\ gmailClient = NoClient
  /\ unread = {}
  /\ processedEmails = {}
  /\ timers = <<>>
  /\ runs = [r \in RunIds |-> IdleRun]
  /\ booted = "up"
  /\ events = 0
  /\ resp = NoResp
  /\ unhandled = FALSE
  /\ lastRefreshed = NoToken
  /\ staleCall = FALSE
  /\ forwards = [id \in MsgIds |-> 0]
  /\ logs = <<>>
  /\ logged = 0
  /\ env = ConfigNames
  /\ storeCall = NoStoreCall

\* saveTokenToFirebase(tokens) up to await set(dbRef, ...).
SaveTokenCalled ==
  /\ events < MaxEvents
  /\ events' = events + 1
  /\ \E tokens \in Credentials :
       storeCall' = [storeCall EXCEPT !.saves = Append(@, tokens)]
  /\ UNCHANGED <<variant, env, store, issued, gmailClient, unread,
                 processedEmails, timers, runs, booted, resp, unhandled,
                 lastRefreshed, staleCall, forwards, logs, logged>>

\* set(dbRef, ...) is answered: the document is replaced and the function
\* logs and returns; or set rejects, the document stays, and the rejection
\* goes to the caller (part_002 logs it first).
SaveTokenAnswered ==
  /\ \E k \in 1..Len(storeCall.saves) :
       LET tokens == storeCall.saves[k]
           Without(s, j) == SubSeq(s, 1, j - 1) \o SubSeq(s, j + 1, Len(s))
       IN
       \/ /\ store' = saveTokenToFirebase(store, tokens)
          /\ storeCall' = [storeCall EXCEPT
                             !.saves = Without(@, k),
                             !.stale = @ + storeCall.fresh,
                             !.fresh = 0,
                             !.done = TRUE,
                             !.saved = tokens,
                             !.over = Exists(store) /\ store' # store,
                             !.ok = FALSE]
          /\ Logs(1)
       \/ /\ storeCall' = [storeCall EXCEPT !.saves = Without(@, k)]
          /\ Logs(IF variant = "processed" THEN 1 ELSE 0)
          /\ UNCHANGED store
  /\ UNCHANGED <<variant, env, issued, gmailClient, unread, processedEmails,
                 timers, runs, booted, events, resp, unhandled, lastRefreshed,
                 staleCall, forwards>>

\* loadTokenFromFirebase() up to await get(child(dbRef, "gmail-token")).
LoadTokenCalled ==
  /\ events < MaxEvents
  /\ events' = events + 1
  /\ storeCall' = IF storeCall.done
                  THEN [storeCall EXCEPT !.fresh = @ + 1]
                  ELSE [storeCall EXCEPT !.stale = @ + 1]
  /\ UNCHANGED <<variant, env, store, issued, gmailClient, unread,
                 processedEmails, timers, runs, booted, resp, unhandled,
                 lastRefreshed, staleCall, forwards, logs, logged>>

\* get(...) is answered: the function logs what it found and returns the
\* value or null; or get rejects and the rejection goes to the caller.
LoadTokenAnswered ==
  /\ \E isFresh \in BOOLEAN :
       /\ IF isFresh THEN storeCall.fresh > 0 ELSE storeCall.stale > 0
       /\ \/ /\ storeCall' = [storeCall EXCEPT
                                !.fresh = IF isFresh THEN @ - 1 ELSE @,
                                !.stale = IF isFresh THEN @ ELSE @ - 1,
                                !.ok = isFresh,
                                !.loaded = loadTokenFromFirebase(store)]
             /\ Logs(1)
          \/ /\ storeCall' = [storeCall EXCEPT
                                !.fresh = IF isFresh THEN @ - 1 ELSE @,
                                !.stale = IF isFresh THEN @ ELSE @ - 1]
             /\ UNCHANGED <<logs, logged>>
  /\ UNCHANGED <<variant, env, store, issued, gmailClient, unread,
                 processedEmails, timers, runs, booted, events, resp,
                 unhandled, lastRefreshed, staleCall, forwards>>

NextStore ==
  \/ SaveTokenCalled
  \/ SaveTokenAnswered
  \/ LoadTokenCalled
  \/ LoadTokenAnswered

SpecStore == InitStore /\ [][NextStore]_vars

\* ------------------------------------------------------------- properties
Ended(r) == runs[r].pc = "ended"
InFlight == {r \in RunIds : runs[r].pc \notin {"idle", "ended"}}

\* C1: when a cycle has run to its end, every listed item whose Subject lacks
\* the marker was never forwarded by it and no longer carries UNREAD.
SkippedItemsMarkedRead ==
  \A r \in RunIds :
    Ended(r) /\ runs[r].outcome = "done" =>
      \A id \in runs[r].listed :
        ~Accepted(variant, id) =>
          /\ Count(runs[r].sent, id) = 0
          /\ id \notin unread

\* C2: when a tick (a timer callback, with the retries it makes) that no
\* other cycle ran beside has run to its end, every listed item whose
\* Subject holds the marker was forwarded exactly once.
ForwardedExactlyOncePerTick ==
  \A r \in RunIds :
    (Ended(r) /\ runs[r].outcome = "done"
       /\ runs[r].origin \in TimerOrigins /\ runs[r].alone) =>
      \A id \in runs[r].listed :
        Accepted(variant, id) => Count(runs[r].sent, id) = 1

\* C3: a tick attempts the cycle at most twice, and a tick that got through
\* after an unauthorized answer did so on its second attempt.
AtMostOneRetry ==
  \A r \in RunIds :
    runs[r].origin \in TimerOrigins =>
      /\ runs[r].attempts <= 2
      /\ Ended(r) /\ runs[r].failed /\ runs[r].outcome = "done"
           => runs[r].attempts = 2

\* C4: a step that completes a refresh leaves a persisted record with the
\* new access token and with the new refresh token if the response carried
\* one, the previously persisted refresh token otherwise.
RefreshKeepsRefreshToken ==
  [][lastRefreshed' # lastRefreshed =>
       /\ store'.at = lastRefreshed'.at
       /\ store'.rt = IF lastRefreshed'.rt # 0 THEN lastRefreshed'.rt ELSE store.rt]_vars

\* C5: the step in which a cycle's list call returns nothing, which ends the
\* cycle, forwards nothing, marks nothing, and leaves the mailbox, the
\* processed ids and the persisted credential as they were.
EmptyCycleChangesNothing ==
  [][\A r \in RunIds :
       (runs[r].pc = "list" /\ runs'[r].pc = "ended"
          /\ runs'[r].outcome = "done" /\ runs'[r].msgs = <<>>) =>
           /\ runs'[r].sent = runs[r].sent
           /\ runs'[r].marked = runs[r].marked
           /\ unread' = unread
           /\ processedEmails' = processedEmails
           /\ store' = store]_vars

\* C6: in a cycle no provider call has failed in, an item whose webhook POST
\* failed is marked read or is the one messages.modify is being awaited for,
\* and the cycle runs to its end.
PostFailureContained ==
  \A r \in RunIds :
    ~runs[r].failed =>
      /\ \A id \in runs[r].postFailed :
           \/ id \in runs[r].marked
           \/ runs[r].pc = "modify" /\ runs[r].msgs[runs[r].i] = id
      /\ Ended(r) /\ runs[r].postFailed # {} => runs[r].outcome = "done"

\* C7: no rejection leaves a timer callback uncaught: a tick that ends with
\* fetchAndProcessEmails rejecting has a caller that catches it.
NoFailureEscapesTick ==
  \A r \in RunIds :
    (Ended(r) /\ runs[r].origin \in TimerOrigins /\ runs[r].outcome = "threw") =>
      CallerCatches(variant, runs[r].origin)

\* C8: no provider call goes through a client built before the latest
\* refresh (with a single credential in use there is no such client).
LatestClientOnly == ~staleCall

\* C9: at most one polling timer exists.
SingleTimer == Len(timers) <= 1

\* C10: at most one tick is in flight.
TicksNeverOverlap ==
  Cardinality({r \in InFlight : runs[r].origin \in TimerOrigins}) <= 1

\* ------------------------------------------------------- reachable cases
\* C5: a cycle has just found the mailbox empty, with processed ids recorded
\* and a credential persisted.
EmptyCycleSeen ==
  \E r \in RunIds :
    /\ Ended(r) /\ runs[r].outcome = "done" /\ runs[r].listed = {}
    /\ processedEmails # {}
    /\ store.at # 0

\* C6: a cycle has run to its end after the webhook POST failed for an item
\* that was not the last of its list.
PostFailureSeen ==
  \E r \in RunIds :
    /\ Ended(r) /\ ~runs[r].failed /\ runs[r].outcome = "done"
    /\ \E k \in 1..(Len(runs[r].msgs) - 1) :
         /\ runs[r].msgs[k] \in runs[r].postFailed
         /\ runs[r].msgs[k] \in runs[r].marked

\* C11: where the processed-id set is kept, no message id is POSTed to the
\* webhook more than once.
ForwardedAtMostOnce ==
  UsesProcessedSet(variant) => \A id \in MsgIds : forwards[id] <= 1

\* C12: when a cycle in which no provider call failed has run to its end,
\* no item it listed carries UNREAD; and a messages.modify for an item that
\* is already read leaves the mailbox as it was.
AllListedMarkedRead ==
  /\ [](\A r \in RunIds :
         (Ended(r) /\ runs[r].outcome = "done" /\ ~runs[r].failed) =>
           \A id \in runs[r].listed : id \notin unread)
  /\ [][\A r \in RunIds :
         (runs[r].pc = "modify" /\ runs'[r].marked # runs[r].marked
            /\ runs[r].msgs[runs[r].i] \notin unread) => unread' = unread]_vars

\* C13: when messages.get for one item fails with an error other than 401,
\* the cycle goes on with the next listed item (or runs to its end if that
\* item was the last).
GetErrorSkipsItemOnly ==
  [][\A r \in RunIds :
       (runs[r].pc = "get" /\ Fail(r, runs[r], "error")) =>
         IF runs[r].i < Len(runs[r].msgs)
         THEN runs'[r].pc = "get" /\ runs'[r].i > runs[r].i
         ELSE runs'[r].pc = "ended" /\ runs'[r].outcome = "done"]_vars

\* C14: when the provider rejects the authorization code, /oauth2callback
\* answers with an error status and the persisted credential is unchanged.
ExchangeFailureSurfaced ==
  [][CallbackBadCode =>
       /\ resp'.route = "/oauth2callback"
       /\ resp'.status >= 400
       /\ store' = store]_vars

\* C15: refreshAccessTokenIfNeeded (part_002, index.ts) and refreshAccessToken
\* (app.ts) fail when no record or no refresh token is persisted, without
\* reaching the provider call, and fail when the provider call rejects; in
\* each case the persisted credential stays as it was.
RefreshFailsLeavingStore ==
  [][/\ \A r \in RunIds :
          (runs[r].pc = "rLoad" /\ runs'[r].pc # "rLoad"
             /\ (store.at = 0 \/ store.rt = 0)) =>
            /\ runs'[r].pc = "ended" /\ runs'[r].failed
            /\ runs'[r].outcome \in {"logged", "threw"}
            /\ store' = store /\ issued' = issued
     /\ \A r \in RunIds :
          (runs[r].pc \in {"rCall", "aCall"} /\ runs'[r].pc = "ended"
             /\ runs'[r].outcome # "refreshed") =>
            /\ runs'[r].failed
            /\ store' = store
     /\ (GenerateToken /\ (store.at = 0 \/ store.rt = 0)) =>
            /\ resp' = GenerateResp(500, "error")
            /\ runs' = runs
            /\ store' = store /\ issued' = issued]_vars

\* C15: a refresh has just failed on a persisted record that has an access
\* token and no refresh token.
RefreshWithoutRefreshTokenSeen ==
  \E r \in RunIds :
    /\ Ended(r) /\ runs[r].rctx \in {"retry", "prelude"}
    /\ runs[r].failed /\ runs[r].tok = NoToken
    /\ store.at # 0 /\ store.rt = 0

\* C16: a refresh is in progress only in answer to a 401 and only with a
\* credential persisted (Authorized -> Refreshing), and the mail provider is
\* polled (a call is pending through a client that holds credentials) only
\* with a credential persisted (Authorized).
RefreshOnlyOn401 ==
  \A r \in RunIds :
    /\ runs[r].pc \in {"rLoad", "rCall", "rSave"} =>
         /\ runs[r].rctx \in {"retry", "blank"}
         /\ store.at # 0
    /\ (runs[r].pc \in {"list", "get", "modify"} /\ HasCredentials(runs[r])) =>
         store.at # 0

\* C17: within a cycle the calls follow the list order one item at a time:
\* the POST of an item follows its messages.get, its messages.modify follows
\* its POST (or its messages.get when it is skipped), and the messages.get
\* of a later item is issued only when the item before it has been handled
\* and every item in between is one the processed-id set steps over.
OneItemAtATime ==
  [][\A r \in RunIds :
       LET a == runs[r]
           b == runs'[r]
       IN /\ (b.pc = "post" /\ a.pc # "post") =>
               a.pc = "get" /\ b.i = a.i /\ b.msgs = a.msgs
          /\ (b.pc = "modify" /\ a.pc # "modify") =>
               /\ a.pc \in {"get", "post"} /\ b.i = a.i /\ b.msgs = a.msgs
               /\ Accepted(variant, a.msgs[a.i]) => a.pc = "post"
          /\ (b.pc = "get" /\ a.pc = "list") =>
               \A k \in 1..(b.i - 1) : b.msgs[k] \in processedEmails
          /\ (b.pc = "get" /\ a.pc \in {"get", "post", "modify"} /\ b.i # a.i) =>
               /\ b.i > a.i /\ b.msgs = a.msgs
               /\ a.pc \in {"get", "modify"}
               /\ a.pc = "modify" => a.msgs[a.i] \in b.marked
               /\ a.pc = "get" => ~Accepted(variant, a.msgs[a.i])
               /\ \A k \in (a.i + 1)..(b.i - 1) : b.msgs[k] \in processedEmails
          /\ (b.pc = "get" /\ a.pc # "get") => a.pc \in {"list", "modify"}]_vars

\* C17: a cycle has handled two listed items, the second of them forwarded,
\* with no call failing.
TwoItemsInOrderSeen ==
  \E r \in RunIds :
    /\ Ended(r) /\ runs[r].outcome = "done" /\ ~runs[r].failed
    /\ Len(runs[r].msgs) = 2
    /\ runs[r].sent = <<runs[r].msgs[2]>>
    /\ runs[r].marked = {runs[r].msgs[1], runs[r].msgs[2]}

\* C18: when a cycle in which no call failed has listed the item titled
\* "Server ALERT: disk full" with body "92% used" and run to its end, it has
\* POSTed a payload for it that holds the title and the body, and the item
\* no longer carries UNREAD.
DiskFullTitle ==
  <<"S","e","r","v","e","r"," ","A","L","E","R","T",":"," ","d","i","s","k"," ","f","u","l","l">>
DiskFullBody == <<"9","2","%"," ","u","s","e","d">>
PayloadHolds(p, text) ==
  Includes(p.content, text) \/ Includes(p.title, text) \/ Includes(p.description, text)
DiskFullForwarded ==
  \A r \in RunIds :
    (Ended(r) /\ runs[r].outcome = "done" /\ ~runs[r].failed) =>
      \A id \in runs[r].listed :
        (SubjectOf(id) = DiskFullTitle /\ BodyDataOf(id) = DiskFullBody) =>
          /\ Count(runs[r].sent, id) >= 1
          /\ PayloadHolds(Payload(variant, id), DiskFullTitle)
          /\ PayloadHolds(Payload(variant, id), DiskFullBody)
          /\ id \notin unread

\* C19: a call of loadTokenFromFirebase made after a call of
\* saveTokenToFirebase has returned, with no other save answered since,
\* returns the credential that save was given, field by field of the
\* persisted layout; and a save of the credential the store was last given
\* leaves the store as it is, whatever the store held before the first.
SavedCredentialVisible ==
  /\ [](storeCall.ok =>
          \A f \in StoredFields :
            Field(storeCall.loaded, f) = Field(storeCall.saved, f))
  /\ [][(/\ storeCall.done
         /\ Len(storeCall'.saves) < Len(storeCall.saves)
         /\ storeCall'.saved = storeCall.saved) => store' = store]_vars
\* part_002 has saved a credential with an id token and no refresh token
\* over an older document, and a load called afterwards has returned it.
SavedOverOlderSeen ==
  /\ variant = "processed"
  /\ storeCall.ok
  /\ storeCall.over
  /\ storeCall.saved.id_token = 1
  /\ storeCall.saved.rt = 0
  /\ storeCall.loaded.at = storeCall.saved.at
  /\ storeCall.loaded.expiry_date = 2

\* C20: after any number of addLog calls the buffer holds at most its
\* capacity (100 in the second server of index.ts, 20 elsewhere); its entries
\* are consecutive calls in the order they were made, ending with the latest
\* call; nothing is dropped before the capacity is reached and the buffer
\* never gets shorter; and GET /logs answers with exactly the buffer.
LogBufferKeepsNewest ==
  /\ [](/\ Len(logs) <= LogCapacity(variant)
        /\ Len(logs) < LogCapacity(variant) => Len(logs) = logged
        /\ logs # <<>> => logs[Len(logs)] = logged
        /\ \A k \in 1..(Len(logs) - 1) :
             logs[k + 1] = NextNumber(variant, logs[k]))
  /\ [][/\ Len(logs') >= Len(logs)
        /\ resp' # resp =>
             /\ resp'.route = "/logs"
             /\ resp'.status = 200
             /\ resp'.json = logs]_vars
\* The buffer has overflowed (its oldest entry is no longer the first call)
\* and GET /logs has answered since.
LogOverflowServed ==
  /\ Len(logs) = LogCapacity(variant)
  /\ logs[1] # 1
  /\ resp.route = "/logs"
  /\ resp.json = logs

\* C21: GET /oauth2callback without a code is answered with 400; it asks the
\* identity provider for nothing, writes no credential, and starts neither a
\* timer nor a fetch.
NoCodeAnswered400 ==
  [][CallbackNoCode =>
       /\ resp'.route = "/oauth2callback"
       /\ resp'.status = 400
       /\ issued' = issued
       /\ store' = store
       /\ gmailClient' = gmailClient
       /\ timers' = timers
       /\ runs' = runs
       /\ unread' = unread /\ forwards' = forwards]_vars
\* The callback has been requested without a code.
NoCodeSeen == resp.route = "/oauth2callback" /\ resp.status = 400

\* C22: when any of client id, client secret, redirect URI, webhook URL,
\* poll interval or max items per poll is missing from the environment, the
\* process exits: the server never listens and no fetch or timer starts.
MissingConfigExits ==
  ((\E n \in {"CLIENT_ID", "CLIENT_SECRET", "REDIRECT_URI", "WEBHOOK_URL",
               "REFRESH_MAILS_TIME_MS", "MAX_EMAILS_TO_FETCH"} : n \notin env)
   /\ booted # "cold") =>
    /\ booted = "exited"
    /\ timers = <<>>
    /\ Active = {}

\* C23: a cycle removes UNREAD from an item whose Subject contains the
\* marker only when its last webhook POST was for that very item, and every
\* such item a cycle has marked is one it has POSTed.
MatchedMarkedAfterForward ==
  \A r \in RunIds :
    /\ (runs[r].pc = "modify"
        /\ Includes(SubjectOf(runs[r].msgs[runs[r].i]), Marker(variant))) =>
         /\ runs[r].sent # <<>>
         /\ runs[r].sent[Len(runs[r].sent)] = runs[r].msgs[runs[r].i]
    /\ \A id \in runs[r].marked :
         Includes(SubjectOf(id), Marker(variant)) => Count(runs[r].sent, id) >= 1
\* A cycle has forwarded a matching item and then marked it read.
MatchedMarkedSeen ==
  \E r \in RunIds : \E id \in runs[r].marked :
    /\ Includes(SubjectOf(id), Marker(variant))
    /\ Count(runs[r].sent, id) >= 1
    /\ id \notin unread

\* C24: once a polling timer exists, every item that is unread at some point
\* later has its UNREAD label removed, also an item that was forwarded and
\* recorded in processedEmails while its mark-read call failed.
UnreadEventuallyRead ==
  \A id \in MsgIds : (timers # <<>> /\ id \in unread) ~> (id \notin unread)

\* C25: the persisted refresh token never goes back to one issued earlier
\* than the one it replaces; in particular not when the "tokens" listener of
\* an earlier authorize writes its merged record.
RefreshTokenNeverReverts ==
  [][(store.rt # 0 /\ store'.rt # 0) => store'.rt >= store.rt]_vars

\* C26: with every request answered unauthorized and every refresh granted,
\* an invocation of fetchAndProcessEmails returns or throws after a bounded
\* number of attempts: it never begins attempt MaxDepth + 1.
RetryDepthBounded ==
  \A r \in RunIds : runs[r].pc # "idle" => runs[r].attempts <= MaxDepth

\* C27: in the processed-set server, when the exchange answers with tokens
\* that carry no refresh token, the callback is over in that step with the
\* persisted record exactly as it was and no save under way; a save awaited
\* by the callback always carries a refresh token.
NoRefreshTokenNothingSaved ==
  /\ [][\A tokens \in TokenResponses(issued) :
          (tokens.rt = 0 /\ CallbackProcessedWith(tokens)) =>
            /\ store' = store
            /\ runs' = runs
            /\ resp' = CallbackDone]_vars
  /\ [](variant = "processed" =>
          \A r \in RunIds : runs[r].pc = "xSave" => runs[r].cred.rt # 0)
\* The exchange has answered (nothing else has asked the identity provider
\* and no call has failed), the endpoint has redirected, and the persisted
\* record is not what the exchange answered.
ExchangeNotSavedSeen ==
  /\ variant = "processed"
  /\ resp = CallbackDone
  /\ events = 1
  /\ issued = 2
  /\ store.at # issued
  /\ \A r \in RunIds : runs[r].pc \notin {"xSave", "lSave"}

\* C28: in the processed-set server's periodic tick with the persisted
\* credential about to expire, no mail call and no forward is made while the
\* refresh is under way; when the refresh completes, the shared client is
\* replaced in the same step in which the tick goes on to its list call, and
\* that call uses the refreshed client; when the refresh fails, the tick ends
\* having made no mail call and no forward.
EarlyRefreshBeforeList ==
  /\ [](\A r \in RunIds :
          (variant = "processed" /\ runs[r].origin = "main"
           /\ runs[r].rctx = "prelude") =>
            /\ runs[r].pc \in {"rLoad", "rCall", "rSave"} =>
                 /\ runs[r].attempts = 0
                 /\ runs[r].listed = {}
                 /\ runs[r].sent = <<>>
                 /\ runs[r].marked = {}
            /\ runs[r].pc = "list" =>
                 /\ runs[r].cred.at # 0
                 /\ runs[r].client.at = runs[r].cred.at
            /\ (runs[r].pc = "ended" /\ runs[r].failed /\ runs[r].attempts = 0) =>
                 /\ runs[r].outcome = "logged"
                 /\ runs[r].listed = {}
                 /\ runs[r].sent = <<>>
                 /\ runs[r].marked = {})
  /\ [][\A r \in RunIds :
          (variant = "processed" /\ runs[r].origin = "main"
           /\ runs[r].rctx = "prelude"
           /\ runs[r].pc \in {"rLoad", "rCall", "rSave"}) =>
            /\ runs'[r].pc = "list" =>
                 /\ runs[r].pc = "rSave"
                 /\ gmailClient'.at = runs[r].cred.at
                 /\ runs'[r].client = gmailClient'
                 /\ store'.at = runs[r].cred.at
            /\ runs'[r].pc = "ended" =>
                 /\ runs'[r].failed
                 /\ runs'[r].attempts = 0
                 /\ gmailClient' = gmailClient
                 /\ unread' = unread
                 /\ forwards' = forwards
            /\ runs'[r].pc \in {"rLoad", "rCall", "rSave", "list", "ended"}]_vars
\* A periodic tick has refreshed early and its list call has been answered.
EarlyRefreshThenListSeen ==
  \E r \in RunIds :
    /\ variant = "processed"
    /\ runs[r].origin = "main"
    /\ runs[r].rctx = "prelude"
    /\ runs[r].cred.at # 0
    /\ runs[r].attempts = 1
    /\ runs[r].pc \in {"get", "ended"}
    /\ ~runs[r].failed

\* C29: while no credential is persisted there is no polling timer and no
\* call of fetchAndProcessEmails in flight (authorize has handed no mail
\* client to a caller), and what GET / answers is the consent link.
NoCredentialNoPolling ==
  /\ [](store.at = 0 => timers = <<>> /\ Cycles = {})
  /\ [][(store.at = 0 /\ resp' # resp /\ resp'.route = "/") =>
          resp'.body = "consent"]_vars

====
